---- MODULE Spec2Model ----
(***************************************************************************)
(* Header template matching and rendering engine of eslint-plugin-headers. *)
(*                                                                         *)
(* Text is modelled as a sequence of characters, each character a          *)
(* one-element atom ("a", " ", "LF", ...).  Regular expressions are kept   *)
(* as their source text (a sequence of characters) and interpreted by the  *)
(* operator RegexTest, so that escaping, trimming and pattern insertion    *)
(* act on regex source exactly as the JavaScript code does.                *)
(***************************************************************************)
EXTENDS Integers, Sequences, FiniteSets, TLC

(***************************************************************************)
(* Characters                                                              *)
(***************************************************************************)
LF == "LF"
CR == "CR"
LS == "LS"
BS == "\\"

WordChars == {"a", "b", "c", "d", "e", "f", "i", "n", "u", "l", "O", "v", "p", "q", "1", "2", "_"}
DigitChars == {"1", "2"}
LineTerminators == {LF, CR, LS}
SpaceChars == {" ", LF, CR, LS}
RegexMeta == {".", "*", "+", "?", "^", "$", "{", "}", "(", ")", "|", "[", "]", BS}

IsWord(c) == c \in WordChars
IsSpace(c) == c \in SpaceChars

(***************************************************************************)
(* Optional values (undefined / a string)                                  *)
(***************************************************************************)
None == [set |-> FALSE, v |-> <<>>]
Some(s) == [set |-> TRUE, v |-> s]
\* JavaScript a ?? b
Coalesce(o, dflt) == IF o.set THEN o.v ELSE dflt
\* JavaScript truthiness of an optional string: undefined and "" are falsy
Truthy(o) == o.set /\ Len(o.v) > 0

(***************************************************************************)
(* String helpers (String.prototype)                                       *)
(***************************************************************************)
Slice(s, from, to) == SubSeq(s, from + 1, to)

RECURSIVE trimEnd(_)
trimEnd(s) ==
  IF Len(s) > 0 /\ IsSpace(s[Len(s)]) THEN trimEnd(SubSeq(s, 1, Len(s) - 1)) ELSE s

RECURSIVE trimStart(_)
trimStart(s) ==
  IF Len(s) > 0 /\ IsSpace(s[1]) THEN trimStart(Tail(s)) ELSE s

trim(s) == trimStart(trimEnd(s))

RECURSIVE Join(_, _)
Join(parts, sep) ==
  IF Len(parts) = 0 THEN <<>>
  ELSE IF Len(parts) = 1 THEN parts[1]
  ELSE parts[1] \o sep \o Join(Tail(parts), sep)

StartsWithAt(s, i, t) ==
  /\ i + Len(t) - 1 <= Len(s)
  /\ SubSeq(s, i, i + Len(t) - 1) = t

\* String.prototype.split with a non-empty string separator
RECURSIVE SplitFrom(_, _, _, _)
SplitFrom(s, sep, i, cur) ==
  IF i > Len(s) THEN <<cur>>
  ELSE IF StartsWithAt(s, i, sep)
       THEN <<cur>> \o SplitFrom(s, sep, i + Len(sep), <<>>)
       ELSE SplitFrom(s, sep, i + 1, Append(cur, s[i]))

Split(s, sep) == SplitFrom(s, sep, 1, <<>>)

RECURSIVE Repeat(_, _)
Repeat(s, n) == IF n <= 0 THEN <<>> ELSE s \o Repeat(s, n - 1)

RECURSIVE Concat(_)
Concat(parts) == IF Len(parts) = 0 THEN <<>> ELSE parts[1] \o Concat(Tail(parts))

(***************************************************************************)
(* utils: end-of-line handling and regex escaping                          *)
(***************************************************************************)
\* every line break (CRLF, CR, LF, U+2028/2029) becomes a single LF
RECURSIVE normalizeEolFrom(_, _)
normalizeEolFrom(s, i) ==
  IF i > Len(s) THEN <<>>
  ELSE IF s[i] = CR /\ i < Len(s) /\ s[i + 1] = LF THEN <<LF>> \o normalizeEolFrom(s, i + 2)
  ELSE IF s[i] \in LineTerminators THEN <<LF>> \o normalizeEolFrom(s, i + 1)
  ELSE <<s[i]>> \o normalizeEolFrom(s, i + 1)

normalizeEol(s) == normalizeEolFrom(s, 1)

normalizeComments(comments) == [k \in 1..Len(comments) |-> normalizeEol(comments[k])]

\* first line break of the code, or the platform default
RECURSIVE getEolFrom(_, _)
getEolFrom(code, i) ==
  IF i > Len(code) THEN <<LF>>
  ELSE IF code[i] = CR /\ i < Len(code) /\ code[i + 1] = LF THEN <<CR, LF>>
  ELSE IF code[i] \in LineTerminators THEN <<code[i]>>
  ELSE getEolFrom(code, i + 1)

getEolCharacter(code) == getEolFrom(code, 1)

appendNewlines(docblock, eol, trailingNewlines) == docblock \o Repeat(eol, trailingNewlines)

\* every regex metacharacter is preceded by a backslash
RECURSIVE escapeRegex(_)
escapeRegex(s) ==
  IF Len(s) = 0 THEN <<>>
  ELSE (IF s[1] \in RegexMeta THEN <<BS, s[1]>> ELSE <<s[1]>>) \o escapeRegex(Tail(s))

(***************************************************************************)
(* RegExp: interpretation of regex source text                             *)
(*   atoms: literal, \x escape, \w, \d, ., ^, $, ( ) and (?<name> groups,  *)
(*   each consuming atom optionally followed by + or *                     *)
(***************************************************************************)
RECURSIVE NamedGroupLen(_, _)
NamedGroupLen(re, i) ==
  IF i > Len(re) THEN 0
  ELSE IF re[i] = ">" THEN 1
  ELSE 1 + NamedGroupLen(re, i + 1)

AtomAt(re, i) ==
  LET c == re[i] IN
  IF c = BS /\ i < Len(re)
  THEN (IF re[i + 1] = "w" THEN [kind |-> "w", c |-> "", len |-> 2]
        ELSE IF re[i + 1] = "d" THEN [kind |-> "d", c |-> "", len |-> 2]
        ELSE [kind |-> "lit", c |-> re[i + 1], len |-> 2])
  ELSE IF c = "("
  THEN (IF i + 1 < Len(re) /\ re[i + 1] = "?" /\ re[i + 2] = "<"
        THEN [kind |-> "eps", c |-> "", len |-> 1 + NamedGroupLen(re, i + 1)]
        ELSE [kind |-> "eps", c |-> "", len |-> 1])
  ELSE IF c = ")" THEN [kind |-> "eps", c |-> "", len |-> 1]
  ELSE IF c = "." THEN [kind |-> "any", c |-> "", len |-> 1]
  ELSE IF c = "^" THEN [kind |-> "bol", c |-> "", len |-> 1]
  ELSE IF c = "$" THEN [kind |-> "eol", c |-> "", len |-> 1]
  ELSE [kind |-> "lit", c |-> c, len |-> 1]

AtomAccepts(a, ch) ==
  CASE a.kind = "w" -> ch \in WordChars
    [] a.kind = "d" -> ch \in DigitChars
    [] a.kind = "any" -> ch \notin LineTerminators
    [] a.kind = "lit" -> ch = a.c
    [] OTHER -> FALSE

Step(P, a, text) == {p + 1 : p \in {x \in P : x < Len(text) /\ AtomAccepts(a, text[x + 1])}}

RECURSIVE Closure(_, _, _)
Closure(P, a, text) ==
  LET N == P \cup Step(P, a, text) IN IF N = P THEN P ELSE Closure(N, a, text)

\* positions of text reachable after matching re[i..] from a position in P
RECURSIVE Ends(_, _, _, _)
Ends(re, i, text, P) ==
  IF i > Len(re) \/ P = {} THEN P
  ELSE
    LET a == AtomAt(re, i)
        j == i + a.len
        q == IF j <= Len(re) /\ a.kind \in {"w", "d", "any", "lit"} /\ re[j] \in {"+", "*"}
             THEN re[j] ELSE ""
        P1 == CASE a.kind = "eps" -> P
                [] a.kind = "bol" -> P \cap {0}
                [] a.kind = "eol" -> P \cap {Len(text)}
                [] q = "+" -> Closure(Step(P, a, text), a, text)
                [] q = "*" -> Closure(P, a, text)
                [] OTHER -> Step(P, a, text)
    IN Ends(re, IF q = "" THEN j ELSE j + 1, text, P1)

\* RegExp.prototype.test / exec(...) !== null, without the g flag
RegexTest(re, text) == Ends(re, 1, text, 0..Len(text)) # {}

(***************************************************************************)
(* Pattern registry and placeholder scanning                               *)
(***************************************************************************)
\* a registry: undefined, or a map from pattern name to its definition
NoPatterns == [set |-> FALSE, map |-> <<>>]
Registry(m) == [set |-> TRUE, map |-> m]

\* property names every plain object inherits from Object.prototype
ObjectPrototypeKeys == { <<"v", "a", "l", "u", "e", "O", "f">> }  \* valueOf
UndefinedText == <<"u", "n", "d", "e", "f", "i", "n", "e", "d">>

\* this.patterns[patternName] is truthy
PatternsHas(patterns, name) ==
  name \in DOMAIN patterns.map \/ name \in ObjectPrototypeKeys

\* `${this.patterns[patternName].pattern}`
PatternsSource(patterns, name) ==
  IF name \in DOMAIN patterns.map THEN patterns.map[name].pattern ELSE UndefinedText

RECURSIVE WordRunLen(_, _)
WordRunLen(s, i) ==
  IF i <= Len(s) /\ IsWord(s[i]) THEN 1 + WordRunLen(s, i + 1) ELSE 0

\* /\((\w+)\)/ matches at 1-based position i
PlaceholderAt(s, i) ==
  /\ i <= Len(s)
  /\ s[i] = "("
  /\ WordRunLen(s, i + 1) >= 1
  /\ i + 1 + WordRunLen(s, i + 1) <= Len(s)
  /\ s[i + 1 + WordRunLen(s, i + 1)] = ")"

NoMatch == [found |-> FALSE, index |-> 0, name |-> <<>>, len |-> 0]

\* patternPattern.exec(str) with lastIndex = from (0-based index in the result)
RECURSIVE ExecPlaceholder(_, _)
ExecPlaceholder(s, from) ==
  IF from >= Len(s) THEN NoMatch
  ELSE IF PlaceholderAt(s, from + 1)
       THEN [found |-> TRUE, index |-> from,
             name |-> SubSeq(s, from + 2, from + 1 + WordRunLen(s, from + 2)),
             len |-> WordRunLen(s, from + 2) + 2]
       ELSE ExecPlaceholder(s, from + 1)

\* utils.getPatterns(string, registry): the placeholders of registered names
RECURSIVE getPatternsFrom(_, _, _)
getPatternsFrom(s, names, from) ==
  LET m == ExecPlaceholder(s, from) IN
  IF ~m.found THEN <<>>
  ELSE (IF m.name \in names THEN <<m>> ELSE <<>>) \o getPatternsFrom(s, names, m.index + m.len)

getPatterns(s, names) == getPatternsFrom(s, names, 0)

(***************************************************************************)
(* CommentFormatter                                                        *)
(***************************************************************************)
NoValues == [set |-> FALSE, map |-> <<>>]
Values(m) == [set |-> TRUE, map |-> m]

CommentFormatter(lines, options) ==
  [blockPrefix |-> options.blockPrefix,
   blockSuffix |-> options.blockSuffix,
   linePrefix |-> options.linePrefix,
   eol |-> options.eol,
   patternValues |-> options.patternValues,
   lines |-> lines]

\* the loop of formatPatternValues: the values are shifted off the arrays that
\* this.patternValues still refers to (the spread copies the object, not the arrays)
RECURSIVE formatPatternValuesLoop(_, _, _, _)
formatPatternValuesLoop(string, locations, characterIndex, pv) ==
  IF Len(locations) = 0
  THEN [text |-> SubSeq(string, characterIndex + 1, Len(string)), pv |-> pv]
  ELSE
    LET pattern == locations[1]
        literalStart == Slice(string, characterIndex, pattern.index)
        queue == pv[pattern.name]
        patternValue == IF Len(queue) > 0 THEN queue[1] ELSE <<>>
        pv1 == [pv EXCEPT ![pattern.name] = IF Len(queue) > 0 THEN Tail(queue) ELSE queue]
        rest == formatPatternValuesLoop(string, Tail(locations), pattern.index + pattern.len, pv1)
    IN [text |-> literalStart \o patternValue \o rest.text, pv |-> rest.pv]

formatPatternValues(f, string) ==
  LET r == formatPatternValuesLoop(string, getPatterns(string, DOMAIN f.patternValues.map),
                                   0, f.patternValues.map)
  IN [text |-> trim(r.text), pv |-> r.pv]

BodyLines(lines, prefix, linePrefix) ==
  [k \in 1..Len(lines) |-> trimEnd(prefix \o linePrefix \o lines[k])]

getJsdoc(f) ==
  LET blockPrefix == Coalesce(f.blockPrefix, <<"*">> \o f.eol)
      blockSuffix == Coalesce(f.blockSuffix, f.eol \o <<" ">>)
      linePrefix == Coalesce(f.linePrefix, <<" ", "*", " ">>)
      body0 == Join(BodyLines(f.lines, <<>>, linePrefix), f.eol)
      fpv == IF f.patternValues.set THEN formatPatternValues(f, body0)
             ELSE [text |-> body0, pv |-> f.patternValues.map]
  IN [text |-> <<"/", "*">> \o blockPrefix \o fpv.text \o blockSuffix \o <<"*", "/">>,
      formatter |-> [f EXCEPT !.patternValues.map = fpv.pv]]

\* a line block that writes a prefix and a suffix line for every defined option
C16_LineForEmptyOption(f) ==
  [text |-> (IF f.blockPrefix.set THEN <<"/", "/">> \o f.blockPrefix.v \o f.eol ELSE <<>>)
              \o Join(BodyLines(f.lines, <<"/", "/">>, Coalesce(f.linePrefix, <<" ">>)), f.eol)
              \o (IF f.blockSuffix.set THEN f.eol \o <<"/", "/">> \o f.blockSuffix.v ELSE <<>>),
   formatter |-> f]

getLineBlock(f) ==
  LET blockPrefix == IF Truthy(f.blockPrefix) THEN <<"/", "/">> \o f.blockPrefix.v \o f.eol ELSE <<>>
      blockSuffix == IF Truthy(f.blockSuffix) THEN f.eol \o <<"/", "/">> \o f.blockSuffix.v ELSE <<>>
      linePrefix == Coalesce(f.linePrefix, <<" ">>)
      body == Join(BodyLines(f.lines, <<"/", "/">>, linePrefix), f.eol)
  IN [text |-> blockPrefix \o body \o blockSuffix, formatter |-> f]

getHtmlBlock(f) ==
  LET blockPrefix == Coalesce(f.blockPrefix, f.eol)
      blockSuffix == Coalesce(f.blockSuffix, f.eol)
      linePrefix == Coalesce(f.linePrefix, <<" ", " ">>)
      body == Join(BodyLines(f.lines, <<>>, linePrefix), f.eol)
  IN [text |-> <<"<", "!", "-", "-">> \o blockPrefix \o body \o blockSuffix \o <<"-", "-", ">">>,
      formatter |-> f]

\* format(style): the text returned and the formatter as the call leaves it
format(f, style) ==
  CASE style = "line" -> getLineBlock(f)
    [] style = "jsdoc" -> getJsdoc(f)
    [] style = "html" -> getHtmlBlock(f)

(***************************************************************************)
(* CommentBlockMatcher (regex version)                                     *)
(***************************************************************************)
RECURSIVE processLoop(_, _, _)
processLoop(str, patterns, startingIndex) ==
  LET m == ExecPlaceholder(str, startingIndex) IN
  IF ~m.found
  THEN [re |-> IF startingIndex # Len(str) THEN escapeRegex(Slice(str, startingIndex, Len(str))) ELSE <<>>,
        order |-> <<>>]
  ELSE
    LET nextStartingIndex == m.index + m.len
        rest == processLoop(str, patterns, nextStartingIndex)
    IN IF ~PatternsHas(patterns, m.name)
       THEN [re |-> escapeRegex(Slice(str, startingIndex, nextStartingIndex)) \o rest.re,
             order |-> rest.order]
       ELSE [re |-> escapeRegex(Slice(str, startingIndex, m.index))
                      \o <<"(">> \o PatternsSource(patterns, m.name) \o <<")">> \o rest.re,
             order |-> <<m.name>> \o rest.order]

\* the regex source returned, and the names pushed onto this.patternOrder
processAndEscape(str, patterns) ==
  IF ~patterns.set THEN [re |-> escapeRegex(str), order |-> <<>>]
  ELSE IF ~ExecPlaceholder(str, 0).found THEN [re |-> escapeRegex(str), order |-> <<>>]
  ELSE processLoop(str, patterns, 0)

processAndEscapeString(str, patterns) == processAndEscape(str, patterns).re

\* a body regex that also requires the text to end where the template ends
C11_BodyAnchoredAtEnd(blockPrefix, linePrefix, expectedLines, patterns) ==
  <<"^">> \o processAndEscapeString(blockPrefix, patterns)
    \o Join([k \in 1..Len(expectedLines) |->
               trimEnd(processAndEscapeString(linePrefix, patterns)
                         \o processAndEscapeString(expectedLines[k], patterns))],
            <<LF>>)
    \o <<"$">>

buildPrefixedBodyRegex(blockPrefix, linePrefix, expectedLines, patterns) ==
  LET blockPrefixPattern == processAndEscapeString(blockPrefix, patterns)
      bodyPattern ==
        Join([k \in 1..Len(expectedLines) |->
                trimEnd(processAndEscapeString(linePrefix, patterns)
                          \o processAndEscapeString(expectedLines[k], patterns))],
             <<LF>>)
  IN <<"^">> \o blockPrefixPattern \o bodyPattern

buildSuffixRegex(blockSuffix, patterns) ==
  processAndEscapeString(blockSuffix, patterns) \o <<"$">>

\* the names the constructor leaves in this.patternOrder
ConstructorPatternOrder(blockPrefix, blockSuffix, linePrefix, expectedLines, patterns) ==
  processAndEscape(blockPrefix, patterns).order
    \o Concat([k \in 1..Len(expectedLines) |->
                 processAndEscape(linePrefix, patterns).order
                   \o processAndEscape(expectedLines[k], patterns).order])
    \o processAndEscape(blockSuffix, patterns).order

\* a constructor that keeps the line breaks of an option as configured
C8_OptionNotNormalized(o) == IF Truthy(o) THEN o.v ELSE <<>>

\* blockPrefix ? normalizeEol(blockPrefix) : ""
NormalizedOption(o) == IF Truthy(o) THEN normalizeEol(o.v) ELSE <<>>

CommentBlockMatcher(config) ==
  LET blockPrefix == NormalizedOption(config.blockPrefix)
      blockSuffix == NormalizedOption(config.blockSuffix)
      linePrefix == NormalizedOption(config.linePrefix)
  IN [blockPrefix |-> blockPrefix,
      blockSuffix |-> blockSuffix,
      linePrefix |-> linePrefix,
      style |-> config.style,
      expectedLines |-> config.expectedLines,
      patterns |-> config.patterns,
      patternOrder |-> ConstructorPatternOrder(blockPrefix, blockSuffix, linePrefix,
                                               config.expectedLines, config.patterns),
      prefixedBodyRegex |-> buildPrefixedBodyRegex(blockPrefix, linePrefix,
                                                   config.expectedLines, config.patterns),
      suffixRegex |-> buildSuffixRegex(blockSuffix, config.patterns)]

ActualCommentContent(comments) == Join(normalizeComments(comments), <<LF>>)

\* a suffix test whose regex also requires the line prefix in front of the suffix
C14_SuffixAfterLinePrefix(m, comments) ==
  RegexTest(escapeRegex(m.linePrefix) \o m.suffixRegex, ActualCommentContent(comments))

PrefixedBodyMatch(m, comments) == RegexTest(m.prefixedBodyRegex, ActualCommentContent(comments))
SuffixMatch(m, comments) == RegexTest(m.suffixRegex, ActualCommentContent(comments))

\* prefixedBodyMatch is the boolean returned by test(): indexing it gives undefined
UndefinedValue == <<"undefined">>

\* the pattern names collected by match: this.patternOrder was emptied on entry
RECURSIVE CollectValues(_, _)
CollectValues(order, acc) ==
  IF Len(order) = 0 THEN acc
  ELSE CollectValues(Tail(order),
         IF order[1] \in DOMAIN acc
         THEN [acc EXCEPT ![order[1]] = Append(@, UndefinedValue)]
         ELSE [n \in DOMAIN acc \cup {order[1]} |->
                 IF n = order[1] THEN <<UndefinedValue>> ELSE acc[n]])

\* match(comments): null, or the dictionary of pattern values
match(m, comments) ==
  LET patternOrder == <<>>
  IN IF ~PrefixedBodyMatch(m, comments) \/ ~SuffixMatch(m, comments)
     THEN [isNull |-> TRUE, patternValues |-> <<>>, matcher |-> [m EXCEPT !.patternOrder = patternOrder]]
     ELSE [isNull |-> FALSE,
           patternValues |-> CollectValues(patternOrder, <<>>),
           matcher |-> [m EXCEPT !.patternOrder = patternOrder]]

(***************************************************************************)
(* CommentBlockMatcher (cursor version with pattern-value verification)    *)
(***************************************************************************)
\* String.prototype.substring(from, to): indices clamped to the string, swapped if reversed
Clamp(s, i) == IF i < 0 THEN 0 ELSE IF i > Len(s) THEN Len(s) ELSE i
substring(s, from, to) ==
  IF Clamp(s, from) <= Clamp(s, to) THEN Slice(s, Clamp(s, from), Clamp(s, to))
  ELSE Slice(s, Clamp(s, to), Clamp(s, from))

escapeCharactersForRegex(s) == escapeRegex(s)

\* utils.getPatternLocations(string, patterns): the placeholders of registry keys
getPatternLocations(string, patterns) ==
  IF patterns.set THEN getPatterns(string, DOMAIN patterns.map) ELSE <<>>

ContentMismatch == [type |-> "content"]
NoMismatches == [set |-> FALSE, v |-> <<>>]
Mismatches(v) == [set |-> TRUE, v |-> v]

\* what a call leaves behind: thrown or not, its mismatches, this.patternValues
Returned(mismatches, pv) == [threw |-> FALSE, mismatches |-> mismatches, pv |-> pv]
Thrown(pv) == [threw |-> TRUE, mismatches |-> NoMismatches, pv |-> pv]

\* the literal segments before, between and after the placeholders
RECURSIVE LiteralSegments(_, _, _)
LiteralSegments(string, matches, parseIndex) ==
  IF Len(matches) = 0 THEN <<substring(string, parseIndex, Len(string))>>
  ELSE <<substring(string, parseIndex, matches[1].index)>>
         \o LiteralSegments(string, Tail(matches), matches[1].index + matches[1].len)

RECURSIVE getEscapedPatternStringFrom(_, _, _, _)
getEscapedPatternStringFrom(string, matches, parseIndex, patterns) ==
  IF Len(matches) = 0 THEN escapeCharactersForRegex(substring(string, parseIndex, Len(string)))
  ELSE escapeCharactersForRegex(substring(string, parseIndex, matches[1].index))
         \o patterns.map[matches[1].name].pattern
         \o getEscapedPatternStringFrom(string, Tail(matches),
                                        matches[1].index + matches[1].len, patterns)

getEscapedPatternString(string, matches, patterns) ==
  getEscapedPatternStringFrom(string, matches, 0, patterns)

RECURSIVE getCharacterValidationStringFrom(_, _, _)
getCharacterValidationStringFrom(string, matches, parseIndex) ==
  IF Len(matches) = 0 THEN escapeCharactersForRegex(substring(string, parseIndex, Len(string)))
  ELSE escapeCharactersForRegex(substring(string, parseIndex, matches[1].index))
         \o <<"(", "?", "<">> \o matches[1].name \o <<">", ".", "*", ")">>
         \o getCharacterValidationStringFrom(string, Tail(matches),
                                             matches[1].index + matches[1].len)

getCharacterValidationString(string, matches) ==
  getCharacterValidationStringFrom(string, matches, 0)

\* a regex source naming two groups alike is rejected by the RegExp constructor
HasDuplicateGroupNames(matches) ==
  \E j, k \in 1..Len(matches) : j # k /\ matches[j].name = matches[k].name

\* the end of the longest run of characters . accepts from pos on
RECURSIVE DotRunEnd(_, _)
DotRunEnd(text, pos) ==
  IF pos < Len(text) /\ text[pos + 1] \notin LineTerminators THEN DotRunEnd(text, pos + 1)
  ELSE pos

Max(S) == CHOOSE x \in S : \A y \in S : y <= x
Min(S) == CHOOSE x \in S : \A y \in S : x <= y

\* the groups of literal (.*) literal (.*) ... literal matched at pos, greedily
RECURSIVE GroupValues(_, _, _)
LongestGroup(literals, text, from, ends) ==
  IF ends = {} THEN [ok |-> FALSE, values |-> <<>>]
  ELSE [ok |-> TRUE,
        values |-> <<Slice(text, from, Max(ends))>>
                     \o GroupValues(Tail(literals), text, Max(ends)).values]

GroupValues(literals, text, pos) ==
  IF ~StartsWithAt(text, pos + 1, literals[1]) THEN [ok |-> FALSE, values |-> <<>>]
  ELSE IF Len(literals) = 1 THEN [ok |-> TRUE, values |-> <<>>]
  ELSE LongestGroup(literals, text, pos + Len(literals[1]),
         {e \in (pos + Len(literals[1]))..DotRunEnd(text, pos + Len(literals[1])) :
            GroupValues(Tail(literals), text, e).ok})

ExecAt(expectedString, actualString, matches, starts) ==
  IF starts = {} THEN [isNull |-> TRUE, values |-> <<>>]
  ELSE [isNull |-> FALSE,
        values |-> GroupValues(LiteralSegments(expectedString, matches, 0),
                               actualString, Min(starts)).values]

MatchStarts(re, actualString) ==
  {s \in 0..Len(actualString) : Ends(re, 1, actualString, {s}) # {}}

\* validationRegex.exec(actualString): null, or the values of the named groups
ValidationExec(expectedString, actualString, matches) ==
  ExecAt(expectedString, actualString, matches,
         MatchStarts(getCharacterValidationString(expectedString, matches), actualString))

RECURSIVE verifyEach(_, _, _, _, _)
verifyEach(matches, values, patterns, mismatches, pv) ==
  IF Len(matches) = 0
  THEN Returned(IF Len(mismatches) > 0 THEN Mismatches(mismatches) ELSE NoMismatches, pv)
  ELSE IF RegexTest(patterns.map[matches[1].name].pattern, values[1])
  THEN verifyEach(Tail(matches), Tail(values), patterns, mismatches,
                  [pv EXCEPT ![matches[1].name] = Append(@, Some(values[1]))])
  ELSE verifyEach(Tail(matches), Tail(values), patterns,
                  Append(mismatches,
                         [type |-> "pattern", value |-> values[1],
                          range |-> <<matches[1].index, matches[1].index + matches[1].len>>]),
                  [pv EXCEPT ![matches[1].name] = Append(@, None)])

\* reading .groups of the null that exec returns throws a TypeError
verifyGroups(matches, patternValueMatches, patterns, pv) ==
  IF Len(matches) > 0 /\ patternValueMatches.isNull THEN Thrown(pv)
  ELSE verifyEach(matches, patternValueMatches.values, patterns, <<>>, pv)

verifyPatternValues(expectedString, actualString, matches, patterns, pv) ==
  IF HasDuplicateGroupNames(matches) THEN Thrown(pv)
  ELSE verifyGroups(matches, ValidationExec(expectedString, actualString, matches), patterns, pv)

\* the test of the literal strings when the expected string holds no placeholder
SameText(kind, expectedString, actualString) ==
  CASE kind = "all" -> expectedString = actualString
    [] kind = "start" -> StartsWithAt(actualString, 1, expectedString)
    [] kind = "end" ->
         /\ Len(expectedString) <= Len(actualString)
         /\ StartsWithAt(actualString, Len(actualString) - Len(expectedString) + 1, expectedString)

\* the regex test that follows a pattern-value verification v without mismatches
testEscaped(kind, actualString, source, v) ==
  IF v.threw \/ v.mismatches.set THEN v
  ELSE Returned(IF RegexTest((IF kind \in {"all", "start"} THEN <<"^">> ELSE <<>>) \o source
                               \o (IF kind \in {"all", "end"} THEN <<"$">> ELSE <<>>),
                             actualString)
                THEN NoMismatches ELSE Mismatches(<<ContentMismatch>>),
                v.pv)

matchLocated(kind, expectedString, actualString, patterns, pv, matches) ==
  IF Len(matches) = 0
  THEN Returned(IF SameText(kind, expectedString, actualString) THEN NoMismatches
                ELSE Mismatches(<<ContentMismatch>>), pv)
  ELSE testEscaped(kind, actualString, getEscapedPatternString(expectedString, matches, patterns),
                   verifyPatternValues(expectedString, actualString, matches, patterns, pv))

\* kind: "all" for matchStrings, "start" for matchStringStart, "end" for matchStringEnd
matchStringsAs(kind, expectedString, actualString, patterns, pv) ==
  matchLocated(kind, expectedString, actualString, patterns, pv,
               getPatternLocations(expectedString, patterns))

matchStrings(expectedString, actualString, patterns, pv) ==
  matchStringsAs("all", expectedString, actualString, patterns, pv)
matchStringStart(expectedString, actualString, patterns, pv) ==
  matchStringsAs("start", expectedString, actualString, patterns, pv)
matchStringEnd(expectedString, actualString, patterns, pv) ==
  matchStringsAs("end", expectedString, actualString, patterns, pv)

\* resultInfo as a call of tokensStartWith starts with it
StartInfo(tokenIndex, tokenCharacterIndex) ==
  [matches |-> TRUE, tokenIndex |-> tokenIndex, tokenCharacterIndex |-> tokenCharacterIndex,
   mismatches |-> NoMismatches]

Looped(threw, info, characterIndex, pv) ==
  [threw |-> threw, info |-> info, characterIndex |-> characterIndex, pv |-> pv]

\* resultInfo after one pass of the while loop of tokensStartWith; r is the
\* comparison of the pass, whole tells that the first branch was taken
startAdvance(resultInfo, r, whole, remainingCharacterCount, currentTokenLength) ==
  LET tokenCharacterIndex == IF whole THEN resultInfo.tokenCharacterIndex
                             ELSE remainingCharacterCount
  IN [matches |-> resultInfo.matches /\ ~r.mismatches.set,
      mismatches |-> r.mismatches,
      tokenIndex |-> IF tokenCharacterIndex = currentTokenLength
                     THEN resultInfo.tokenIndex + 1 ELSE resultInfo.tokenIndex,
      tokenCharacterIndex |-> IF tokenCharacterIndex = currentTokenLength THEN 0
                              ELSE tokenCharacterIndex]

RECURSIVE tokensStartWithLoop(_, _, _, _, _, _)
startContinue(tokens, expectedStartingString, resultInfo, characterIndex, patterns, r, advanced, nextCharacterIndex) ==
  IF r.threw THEN Looped(TRUE, resultInfo, characterIndex, r.pv)
  ELSE IF ~advanced.matches THEN Looped(FALSE, advanced, nextCharacterIndex, r.pv)
  ELSE tokensStartWithLoop(tokens, expectedStartingString, advanced, nextCharacterIndex,
                           patterns, r.pv)

startCompared(tokens, expectedStartingString, resultInfo, characterIndex, patterns, whole, currentTokenLength, r) ==
  startContinue(tokens, expectedStartingString, resultInfo, characterIndex, patterns, r,
    startAdvance(resultInfo, r, whole, Len(expectedStartingString) - characterIndex,
                 currentTokenLength),
    characterIndex + (IF whole THEN currentTokenLength
                      ELSE Len(expectedStartingString) - characterIndex))

startCompare(tokens, expectedStartingString, resultInfo, characterIndex, patterns, pv, currentToken, whole) ==
  startCompared(tokens, expectedStartingString, resultInfo, characterIndex, patterns,
    whole, Len(currentToken),
    IF whole
    THEN matchStrings(substring(expectedStartingString, characterIndex,
                                characterIndex + Len(currentToken)),
                      substring(currentToken, resultInfo.tokenCharacterIndex, Len(currentToken)),
                      patterns, pv)
    ELSE matchStringStart(substring(expectedStartingString, characterIndex,
                                    Len(expectedStartingString)),
                          substring(currentToken, resultInfo.tokenCharacterIndex, Len(currentToken)),
                          patterns, pv))

tokensStartWithLoop(tokens, expectedStartingString, resultInfo, characterIndex, patterns, pv) ==
  IF ~(resultInfo.tokenIndex < Len(tokens) /\ characterIndex < Len(expectedStartingString))
  THEN Looped(FALSE, resultInfo, characterIndex, pv)
  ELSE startCompare(tokens, expectedStartingString, resultInfo, characterIndex, patterns, pv,
         tokens[resultInfo.tokenIndex + 1],
         Len(expectedStartingString) - characterIndex
           > Len(tokens[resultInfo.tokenIndex + 1]) - resultInfo.tokenCharacterIndex)

\* the check after the loop: the expected string was not used up
startFinish(expectedStartingString, l) ==
  [threw |-> l.threw,
   info |-> IF l.characterIndex # Len(expectedStartingString)
            THEN [l.info EXCEPT !.matches = FALSE,
                                !.mismatches = IF @.set THEN @ ELSE Mismatches(<<ContentMismatch>>)]
            ELSE l.info,
   pv |-> l.pv]

tokensStartWith(tokens, expectedStartingString, tokenIndex, tokenCharacterIndex, patterns, pv) ==
  IF Len(expectedStartingString) = 0
  THEN [threw |-> FALSE, info |-> StartInfo(tokenIndex, tokenCharacterIndex), pv |-> pv]
  ELSE startFinish(expectedStartingString,
         tokensStartWithLoop(tokens, expectedStartingString,
                             StartInfo(tokenIndex, tokenCharacterIndex), 0, patterns, pv))

\* resultInfo after one pass of the while loop of tokensEndWith
endAdvance(resultInfo, r, whole, segmentLength, currentTokenLength) ==
  LET tokenCharacterIndex == IF whole THEN resultInfo.tokenCharacterIndex
                             ELSE currentTokenLength - segmentLength
  IN [matches |-> resultInfo.matches /\ ~r.mismatches.set,
      mismatches |-> r.mismatches,
      tokenIndex |-> IF tokenCharacterIndex = 0
                     THEN resultInfo.tokenIndex - 1 ELSE resultInfo.tokenIndex,
      tokenCharacterIndex |-> IF tokenCharacterIndex = 0 THEN currentTokenLength
                              ELSE tokenCharacterIndex]

RECURSIVE tokensEndWithLoop(_, _, _, _, _, _)
endContinue(tokens, expectedEndingString, resultInfo, characterIndex, patterns, r, advanced, nextCharacterIndex) ==
  IF r.threw THEN Looped(TRUE, resultInfo, characterIndex, r.pv)
  ELSE IF ~advanced.matches THEN Looped(FALSE, advanced, nextCharacterIndex, r.pv)
  ELSE tokensEndWithLoop(tokens, expectedEndingString, advanced, nextCharacterIndex,
                         patterns, r.pv)

endCompared(tokens, expectedEndingString, resultInfo, characterIndex, patterns, whole, currentTokenLength, r) ==
  endContinue(tokens, expectedEndingString, resultInfo, characterIndex, patterns, r,
    endAdvance(resultInfo, r, whole, characterIndex, currentTokenLength),
    characterIndex - (IF whole THEN currentTokenLength ELSE characterIndex))

endCompare(tokens, expectedEndingString, resultInfo, characterIndex, patterns, pv, currentToken, whole) ==
  endCompared(tokens, expectedEndingString, resultInfo, characterIndex, patterns,
    whole, Len(currentToken),
    IF whole
    THEN matchStrings(substring(expectedEndingString, characterIndex - Len(currentToken),
                                characterIndex),
                      currentToken, patterns, pv)
    ELSE matchStringEnd(substring(expectedEndingString, 0, characterIndex),
                        currentToken, patterns, pv))

tokensEndWithLoop(tokens, expectedEndingString, resultInfo, characterIndex, patterns, pv) ==
  IF ~(resultInfo.tokenIndex >= 0 /\ characterIndex > 0)
  THEN Looped(FALSE, resultInfo, characterIndex, pv)
  ELSE endCompare(tokens, expectedEndingString, resultInfo, characterIndex, patterns, pv,
         tokens[resultInfo.tokenIndex + 1],
         characterIndex > Len(tokens[resultInfo.tokenIndex + 1]))

\* the check after the loop: the expected string was not used up
endFinish(l) ==
  [threw |-> l.threw,
   info |-> IF l.characterIndex # 0 THEN [l.info EXCEPT !.matches = FALSE] ELSE l.info,
   pv |-> l.pv]

EndInfo(tokens) ==
  [matches |-> TRUE, tokenIndex |-> Len(tokens) - 1,
   tokenCharacterIndex |-> Len(tokens[Len(tokens)]), mismatches |-> NoMismatches]

tokensEndWith(tokens, expectedEndingString, patterns, pv) ==
  IF Len(expectedEndingString) = 0 THEN [threw |-> FALSE, info |-> EndInfo(tokens), pv |-> pv]
  ELSE endFinish(tokensEndWithLoop(tokens, expectedEndingString, EndInfo(tokens),
                                   Len(expectedEndingString), patterns, pv))

\* the constructor: every registry key starts with an empty list of values
CursorMatcher(config) ==
  [blockPrefix |-> NormalizedOption(config.blockPrefix),
   blockSuffix |-> NormalizedOption(config.blockSuffix),
   linePrefix |-> NormalizedOption(config.linePrefix),
   style |-> config.style,
   expectedLines |-> config.expectedLines,
   patterns |-> config.patterns,
   patternValues |-> [n \in (IF config.patterns.set THEN DOMAIN config.patterns.map ELSE {}) |-> <<>>]]

\* the loop of match over the expected lines
RECURSIVE bodyLoop(_, _, _, _, _, _)
bodyMerge(tokens, expectedLines, lineIndex, bodyMatchInfo, patterns, n) ==
  IF n.threw THEN [threw |-> TRUE, info |-> bodyMatchInfo, pv |-> n.pv]
  ELSE IF n.info.mismatches.set \/ bodyMatchInfo.mismatches.set
  THEN [threw |-> FALSE,
        info |-> [matches |-> FALSE,
                  tokenIndex |-> n.info.tokenIndex,
                  tokenCharacterIndex |-> n.info.tokenCharacterIndex,
                  mismatches |-> IF n.info.mismatches.set
                                 THEN Mismatches(bodyMatchInfo.mismatches.v \o n.info.mismatches.v)
                                 ELSE bodyMatchInfo.mismatches],
        pv |-> n.pv]
  ELSE bodyLoop(tokens, expectedLines, lineIndex + 1,
                StartInfo(n.info.tokenIndex, n.info.tokenCharacterIndex), patterns, n.pv)

bodyLoop(tokens, expectedLines, lineIndex, bodyMatchInfo, patterns, pv) ==
  IF lineIndex > Len(expectedLines)
  THEN [threw |-> FALSE, info |-> bodyMatchInfo, pv |-> pv]
  ELSE bodyMerge(tokens, expectedLines, lineIndex, bodyMatchInfo, patterns,
         tokensStartWith(tokens, expectedLines[lineIndex], bodyMatchInfo.tokenIndex,
                         bodyMatchInfo.tokenCharacterIndex, patterns, pv))

\* expectedLines as match compares them: prefixed, trimmed, one string unless style is line
PrefixedLines(m) ==
  IF m.style # "line"
  THEN <<Join([k \in 1..Len(m.expectedLines) |-> trimEnd(m.linePrefix \o m.expectedLines[k])],
              <<LF>>)>>
  ELSE [k \in 1..Len(m.expectedLines) |-> trimEnd(m.linePrefix \o m.expectedLines[k])]

matchReturn(m, prefixMatchInfo, suffixMatchInfo, body) ==
  IF prefixMatchInfo.threw
  THEN [threw |-> TRUE, mismatches |-> NoMismatches,
        matcher |-> [m EXCEPT !.patternValues = prefixMatchInfo.pv]]
  ELSE IF suffixMatchInfo.threw
  THEN [threw |-> TRUE, mismatches |-> NoMismatches,
        matcher |-> [m EXCEPT !.patternValues = suffixMatchInfo.pv]]
  ELSE IF body.threw
  THEN [threw |-> TRUE, mismatches |-> NoMismatches,
        matcher |-> [m EXCEPT !.patternValues = body.pv]]
  ELSE [threw |-> FALSE,
        mismatches |-> IF body.info.mismatches.set THEN body.info.mismatches
                       ELSE IF prefixMatchInfo.info.mismatches.set
                       THEN prefixMatchInfo.info.mismatches
                       ELSE suffixMatchInfo.info.mismatches,
        matcher |-> [m EXCEPT !.patternValues = body.pv]]

matchBody(m, normalizedComments, prefixMatchInfo, suffixMatchInfo) ==
  matchReturn(m, prefixMatchInfo, suffixMatchInfo,
    bodyLoop(normalizedComments, PrefixedLines(m), 1,
             StartInfo(prefixMatchInfo.info.tokenIndex, prefixMatchInfo.info.tokenCharacterIndex),
             m.patterns, suffixMatchInfo.pv))

matchSuffix(m, normalizedComments, prefixMatchInfo) ==
  matchBody(m, normalizedComments, prefixMatchInfo,
    tokensEndWith(normalizedComments, m.blockSuffix, m.patterns, prefixMatchInfo.pv))

\* match(comments) of the cursor version: thrown, or { mismatches, patternValues }
cursorMatch(m, comments) ==
  matchSuffix(m, normalizeComments(comments),
    tokensStartWith(normalizeComments(comments), m.blockPrefix, 0, 0, m.patterns, m.patternValues))

(***************************************************************************)
(* header-format: resolution of the shape options                          *)
(***************************************************************************)
defaultFormat(style, sourceEol) ==
  CASE style = "jsdoc" -> [blockPrefix |-> Some(<<"*">> \o sourceEol),
                           blockSuffix |-> Some(sourceEol \o <<" ">>),
                           linePrefix |-> Some(<<" ", "*", " ">>)]
    [] style = "line" -> [blockPrefix |-> None, blockSuffix |-> None, linePrefix |-> Some(<<" ">>)]
    [] style = "html" -> [blockPrefix |-> Some(sourceEol),
                          blockSuffix |-> Some(sourceEol),
                          linePrefix |-> Some(<<" ", " ">>)]

\* a resolution that also replaces an empty string by the style default
C19_EmptyTakesDefault(o, dflt) == IF Truthy(o) THEN o ELSE dflt

OrDefault(o, dflt) == IF o.set THEN o ELSE dflt

formatConfig(options, style, sourceEol) ==
  [blockPrefix |-> OrDefault(options.blockPrefix, defaultFormat(style, sourceEol).blockPrefix),
   blockSuffix |-> OrDefault(options.blockSuffix, defaultFormat(style, sourceEol).blockSuffix),
   linePrefix |-> OrDefault(options.linePrefix, defaultFormat(style, sourceEol).linePrefix)]

\* the shape options are the ones header-format passes on (defaults resolved)
IsResolved(c) ==
  formatConfig(c, c.style, c.eol) =
    [blockPrefix |-> c.blockPrefix, blockSuffix |-> c.blockSuffix, linePrefix |-> c.linePrefix]

(***************************************************************************)
(* The host's comment tokens: the text of a formatted header as comments   *)
(***************************************************************************)
DropFirst(s, n) == SubSeq(s, n + 1, Len(s))

RECURSIVE LineCommentValues(_)
LineCommentValues(ls) ==
  IF Len(ls) = 0 THEN <<>>
  ELSE (IF StartsWithAt(ls[1], 1, <<"/", "/">>) THEN <<DropFirst(ls[1], 2)>> ELSE <<>>)
         \o LineCommentValues(Tail(ls))

\* jsdoc/html: the text between the delimiters; line: the text after each //
toFragments(style, text) ==
  CASE style = "jsdoc" -> <<SubSeq(text, 3, Len(text) - 2)>>
    [] style = "html" -> <<SubSeq(text, 5, Len(text) - 3)>>
    [] style = "line" -> LineCommentValues(Split(normalizeEol(text), <<LF>>))

(***************************************************************************)
(* Bounds and input pools                                                  *)
(***************************************************************************)
MaxLines == 2
MaxCalls == 2

Styles == {"jsdoc", "line", "html"}
Eols == {<<LF>>, <<CR, LF>>}
BlockPrefixPool == {None, Some(<<>>), Some(<<"x">>)}
BlockSuffixPool == {None, Some(<<>>), Some(<<"b">>)}
LinePrefixPool == {None, Some(<<>>)}

PName == <<"p">>
ValueOfName == <<"v", "a", "l", "u", "e", "O", "f">>
LinePool ==
  << <<"a", "b">>, <<"(", "p", ")">>, <<>>, <<"a", " ">>, <<"(", "q", ")", ".">>,
     <<"(">> \o ValueOfName \o <<")">> >>

Template(s, n) == [k \in 1..n |-> LinePool[((s + k - 2) % Len(LinePool)) + 1]]
Templates == {Template(s, n) : s \in 1..Len(LinePool), n \in 0..MaxLines}

WordPattern == <<BS, "w", "+">>
PatternRegistry == Registry([n \in {PName} |-> [pattern |-> WordPattern, defaultValue |-> Some(<<"1">>)]])
SuppliedValues == Values([n \in {PName} |-> << <<"1">>, <<"2">> >>])

PatternSetups ==
  { [patterns |-> NoPatterns, patternValues |-> NoValues],
    [patterns |-> PatternRegistry, patternValues |-> NoValues],
    [patterns |-> PatternRegistry, patternValues |-> SuppliedValues] }

(***************************************************************************)
(* State                                                                   *)
(***************************************************************************)
VARIABLES
  config,      \* the configuration the formatter and the matcher were built from
  formatter,   \* the CommentFormatter instance
  matcher,     \* the CommentBlockMatcher instance
  outputs,     \* the strings returned by the calls of format, in order
  comments,    \* the comment fragments last passed to match
  result,      \* what the last call of match returned
  previous,    \* what the call of match before the last one returned
  input,       \* how the comments passed to match were derived
  headerFormatConfigOptions,  \* the options header-format was created with
  file,        \* the source file being linted
  reports,     \* the problems reported by the Program handler, in order
  op           \* the operation that produced the current state

vars ==
  <<config, formatter, matcher, outputs, comments, result, previous, input,
    headerFormatConfigOptions, file, reports, op>>

NoOptions == [style |-> "none"]
NoFile == [input |-> "none"]

NoResult == [isNull |-> TRUE, patternValues |-> <<>>]

ShapeOf(shape, style, eol) == {shape, formatConfig(shape, style, eol)}

Shapes(st, e) ==
  UNION { ShapeOf([blockPrefix |-> bp, blockSuffix |-> bs, linePrefix |-> lp], st, e) :
            bp \in BlockPrefixPool, bs \in BlockSuffixPool, lp \in LinePrefixPool }

ConfigsOf(st, e) ==
  { [style |-> st, eol |-> e, blockPrefix |-> sh.blockPrefix, blockSuffix |-> sh.blockSuffix,
     linePrefix |-> sh.linePrefix, expectedLines |-> t,
     patterns |-> ps.patterns, patternValues |-> ps.patternValues] :
      t \in Templates, ps \in PatternSetups, sh \in Shapes(st, e) }

Configs == UNION { ConfigsOf(st, e) : st \in Styles, e \in Eols }

Construct(c) ==
  /\ config = c
  /\ formatter = CommentFormatter(c.expectedLines, c)
  /\ matcher = CommentBlockMatcher(c)
  /\ outputs = <<>>
  /\ comments = <<>>
  /\ result = NoResult
  /\ previous = NoResult
  /\ input = "none"
  /\ headerFormatConfigOptions = NoOptions
  /\ file = NoFile
  /\ reports = <<>>
  /\ op = "new"

Init == \E c \in Configs : Construct(c)

\* headerFormatter.format(style)
Format ==
  /\ Len(outputs) < MaxCalls
  /\ LET r == format(formatter, config.style) IN
       /\ outputs' = Append(outputs, r.text)
       /\ formatter' = r.formatter
  /\ op' = "format"
  /\ UNCHANGED <<config, matcher, comments, result, previous, input, headerFormatConfigOptions, file, reports>>

\* commentBlockMatcher.match(comments) on the comments of the formatted header
MatchFormatted ==
  /\ Len(outputs) >= 1
  /\ op = "format"
  /\ LET cs == toFragments(config.style, outputs[Len(outputs)])
         r == match(matcher, cs) IN
       /\ comments' = cs
       /\ result' = [isNull |-> r.isNull, patternValues |-> r.patternValues]
       /\ matcher' = r.matcher
  /\ previous' = result
  /\ input' = "formatted"
  /\ op' = "matchFormatted"
  /\ UNCHANGED <<config, formatter, outputs, headerFormatConfigOptions, file, reports>>

Next == Format \/ MatchFormatted

Spec == Init /\ [][Next]_vars

(***************************************************************************)
(* Matching existing comments                                              *)
(***************************************************************************)
\* a template line with each placeholder of a registered pattern replaced by value
RECURSIVE FillFrom(_, _, _, _)
FillFrom(line, locations, characterIndex, value) ==
  IF Len(locations) = 0 THEN SubSeq(line, characterIndex + 1, Len(line))
  ELSE Slice(line, characterIndex, locations[1].index) \o value
         \o FillFrom(line, Tail(locations), locations[1].index + locations[1].len, value)

Fill(line, c, value) == FillFrom(line, getPatterns(line, DOMAIN c.patterns.map), 0, value)

\* the text a header of configuration c is expected to hold, line breaks as LF
ExpectedBody(c, value) ==
  Join([k \in 1..Len(c.expectedLines) |->
          trimEnd(NormalizedOption(c.linePrefix) \o Fill(c.expectedLines[k], c, value))], <<LF>>)

\* the expected body with spaces added at the end of each of its lines
SpacedBody(c, value) ==
  Join([k \in 1..Len(c.expectedLines) |->
          trimEnd(NormalizedOption(c.linePrefix) \o Fill(c.expectedLines[k], c, value)) \o <<" ", " ">>],
       <<LF>>)

ExpectedText(c, value) ==
  NormalizedOption(c.blockPrefix) \o ExpectedBody(c, value) \o NormalizedOption(c.blockSuffix)

RECURSIVE WithEol(_, _)
WithEol(text, e) ==
  IF Len(text) = 0 THEN <<>>
  ELSE (IF text[1] = LF THEN e ELSE <<text[1]>>) \o WithEol(Tail(text), e)

\* line breaks alternating between CRLF, CR and LF
RECURSIVE MixedEol(_, _)
MixedEol(text, n) ==
  IF Len(text) = 0 THEN <<>>
  ELSE IF text[1] = LF
       THEN (CASE n % 3 = 0 -> <<CR, LF>> [] n % 3 = 1 -> <<CR>> [] OTHER -> <<LF>>)
              \o MixedEol(Tail(text), n + 1)
       ELSE <<text[1]>> \o MixedEol(Tail(text), n)

\* text with the letter f in place of each regex metacharacter
SwapMeta(text) == [k \in 1..Len(text) |-> IF text[k] \in RegexMeta THEN "f" ELSE text[k]]

\* the comments the host hands over for a header holding text
AsComments(style, text) == IF style = "line" THEN Split(text, <<LF>>) ELSE <<text>>

DropLast(s) == SubSeq(s, 1, Len(s) - 1)

\* existing headers tried against configuration c
ActualComments(c) ==
  { [input |-> "expected", comments |-> AsComments(c.style, ExpectedText(c, <<"a", "1">>))],
    [input |-> "noSuffix",
     comments |-> AsComments(c.style, NormalizedOption(c.blockPrefix) \o ExpectedBody(c, <<"a", "1">>))],
    [input |-> "badValue", comments |-> AsComments(c.style, ExpectedText(c, <<".">>))],
    [input |-> "metaSwapped", comments |-> AsComments(c.style, SwapMeta(ExpectedText(c, <<"a", "1">>)))],
    [input |-> "trailingSpaces",
     comments |-> AsComments(c.style, NormalizedOption(c.blockPrefix) \o SpacedBody(c, <<"a", "1">>)
                                        \o NormalizedOption(c.blockSuffix))],
    [input |-> "wrongBody",
     comments |-> AsComments(c.style, NormalizedOption(c.blockPrefix) \o <<"c">>
                                        \o ExpectedBody(c, <<"a", "1">>) \o NormalizedOption(c.blockSuffix))],
    [input |-> "extraLines",
     comments |-> AsComments(c.style, NormalizedOption(c.blockPrefix) \o ExpectedBody(c, <<"a", "1">>)
                                        \o <<LF, "@", "a">> \o NormalizedOption(c.blockSuffix))],
    [input |-> "continuedLine",
     comments |-> AsComments(c.style, NormalizedOption(c.blockPrefix) \o ExpectedBody(c, <<"a", "1">>)
                                        \o <<" ", "d">> \o NormalizedOption(c.blockSuffix))] }
  \cup (IF c.style = "line" THEN {}
        ELSE { [input |-> "crlf", comments |-> <<WithEol(ExpectedText(c, <<"a", "1">>), <<CR, LF>>)>>],
               [input |-> "mixedEol", comments |-> <<MixedEol(ExpectedText(c, <<"a", "1">>), 0)>>] })
  \cup (IF c.style = "line" /\ Len(AsComments(c.style, ExpectedText(c, <<"a", "1">>))) > 1
        THEN { [input |-> "fewerComments",
                comments |-> DropLast(AsComments(c.style, ExpectedText(c, <<"a", "1">>)))] }
        ELSE {})

MatchConfigs == {c \in Configs : IsResolved(c) /\ ~c.patternValues.set}

InitMatch == \E c \in MatchConfigs : Construct(c)

\* commentBlockMatcher.match(headerComments) on an existing header
Match ==
  /\ op = "new"
  /\ \E a \in ActualComments(config) :
       LET r == match(matcher, a.comments) IN
         /\ comments' = a.comments
         /\ input' = a.input
         /\ result' = [isNull |-> r.isNull, patternValues |-> r.patternValues]
         /\ matcher' = r.matcher
  /\ previous' = result
  /\ op' = "match"
  /\ UNCHANGED <<config, formatter, outputs, headerFormatConfigOptions, file, reports>>

\* the same text handed over cut into two non-empty comments at position k
MatchSplit ==
  /\ op = "match"
  /\ config.style # "line"
  /\ ~result.isNull
  /\ Len(comments) = 1
  /\ \E k \in 1..(Len(comments[1]) - 1) :
       LET cs == <<SubSeq(comments[1], 1, k), SubSeq(comments[1], k + 1, Len(comments[1]))>>
           r == match(matcher, cs) IN
         /\ comments' = cs
         /\ result' = [isNull |-> r.isNull, patternValues |-> r.patternValues]
         /\ matcher' = r.matcher
  /\ previous' = result
  /\ op' = "matchSplit"
  /\ UNCHANGED <<config, formatter, outputs, input, headerFormatConfigOptions, file, reports>>

NextMatch == Match \/ MatchSplit

SpecMatch == InitMatch /\ [][NextMatch]_vars

(***************************************************************************)
(* Matching existing comments with the cursor version                      *)
(***************************************************************************)
CursorConfigs == {c \in MatchConfigs : c.eol = <<LF>>}

InitCursor ==
  \E c \in CursorConfigs :
    /\ config = c
    /\ formatter = CommentFormatter(c.expectedLines, c)
    /\ matcher = CursorMatcher(c)
    /\ outputs = <<>>
    /\ comments = <<>>
    /\ result = NoResult
    /\ previous = NoResult
    /\ input = "none"
    /\ headerFormatConfigOptions = NoOptions
    /\ file = NoFile
    /\ reports = <<>>
    /\ op = "new"

CursorResult(r) ==
  [threw |-> r.threw, isNull |-> r.mismatches.set, mismatches |-> r.mismatches,
   patternValues |-> r.matcher.patternValues]

CursorReturns(r) ==
  /\ result' = CursorResult(r)
  /\ matcher' = r.matcher

\* commentBlockMatcher.match(headerComments), cursor version, on an existing header
CursorMatch ==
  /\ op = "new"
  /\ \E a \in ActualComments(config) :
       /\ comments' = a.comments
       /\ input' = a.input
       /\ CursorReturns(cursorMatch(matcher, a.comments))
  /\ previous' = result
  /\ op' = "cursorMatch"
  /\ UNCHANGED <<config, formatter, outputs, headerFormatConfigOptions, file, reports>>

\* a second call of match on the same matcher and the same comments
CursorMatchAgain ==
  /\ op = "cursorMatch"
  /\ CursorReturns(cursorMatch(matcher, comments))
  /\ previous' = result
  /\ op' = "cursorMatchAgain"
  /\ UNCHANGED <<config, formatter, outputs, comments, input, headerFormatConfigOptions, file, reports>>

NextCursor == CursorMatch \/ CursorMatchAgain

SpecCursor == InitCursor /\ [][NextCursor]_vars

(***************************************************************************)
(* CommentBlockMatcher (first cursor versions): tokensStartWith and        *)
(* tokensEndWith                                                           *)
(***************************************************************************)
\* what matchStrings, matchStringStart and matchStringEng give: a boolean, or a
\* TypeError when this.patterns is undefined and getPatterns indexes it
Matched(ok) == [threw |-> FALSE, ok |-> ok]
MatchThrew == [threw |-> TRUE, ok |-> FALSE]

Anchored(kind, source) ==
  CASE kind = "all" -> <<"^">> \o source \o <<"$">>
    [] kind = "start" -> <<"^">> \o source
    [] kind = "end" -> source \o <<"$">>

\* the matches of getPatterns(expectedString) are ms
matchPatterns(kind, expectedString, actualString, patterns, ms) ==
  IF Len(ms) = 0 THEN Matched(SameText(kind, expectedString, actualString))
  ELSE Matched(RegexTest(Anchored(kind, getEscapedPatternString(expectedString, ms, patterns)),
                         actualString))

\* matchStrings ("all"), matchStringStart ("start"), matchStringEng ("end")
matchStringsOf(kind, expectedString, actualString, patterns) ==
  IF ~patterns.set
  THEN (IF ExecPlaceholder(expectedString, 0).found THEN MatchThrew
        ELSE Matched(SameText(kind, expectedString, actualString)))
  ELSE matchPatterns(kind, expectedString, actualString, patterns,
                     getPatterns(expectedString, DOMAIN patterns.map))

\* resultInfo, or the TypeError that ended the call
MatchInfo(matches, tokenIndex, tokenCharacterIndex) ==
  [threw |-> FALSE, matches |-> matches, tokenIndex |-> tokenIndex,
   tokenCharacterIndex |-> tokenCharacterIndex]
InfoThrew == [threw |-> TRUE, matches |-> FALSE, tokenIndex |-> 0, tokenCharacterIndex |-> 0]

\* the token at a 0-based index
TokenAt(tokens, tokenIndex) == tokens[tokenIndex + 1]

\* the end of tokensStartWith and of tokensEndWith: characterIndex must have
\* reached its goal
cursorFinish(r, characterIndex, goal) ==
  IF characterIndex # goal THEN [r EXCEPT !.matches = FALSE] ELSE r

RECURSIVE firstStartLoop(_, _, _, _, _)
\* after the strings were compared (m) and tokenCharacterIndex was set (tci)
firstStartCompared(tokens, string, r, characterIndex, patterns, m, tci) ==
  IF m.threw THEN InfoThrew
  ELSE IF ~(r.matches /\ m.ok)
  THEN cursorFinish(
         IF tci = Len(TokenAt(tokens, r.tokenIndex))
         THEN MatchInfo(FALSE, r.tokenIndex + 1, 0)
         ELSE MatchInfo(FALSE, r.tokenIndex, tci),
         characterIndex, Len(string))
  ELSE firstStartLoop(tokens, string,
         IF tci = Len(TokenAt(tokens, r.tokenIndex))
         THEN MatchInfo(TRUE, r.tokenIndex + 1, 0)
         ELSE MatchInfo(TRUE, r.tokenIndex, tci),
         characterIndex, patterns)

\* one pass of the while loop of tokensStartWith on currentToken
firstStartStep(tokens, string, r, characterIndex, patterns, currentToken) ==
  IF Len(string) - characterIndex > Len(currentToken) - r.tokenCharacterIndex
  THEN firstStartCompared(tokens, string, r, characterIndex + Len(currentToken), patterns,
         matchStringsOf("all",
                        substring(string, characterIndex, characterIndex + Len(currentToken)),
                        substring(currentToken, r.tokenCharacterIndex, Len(currentToken)),
                        patterns),
         r.tokenCharacterIndex)
  ELSE firstStartCompared(tokens, string, r, Len(string), patterns,
         matchStringsOf("start",
                        substring(string, characterIndex, Len(string)),
                        substring(currentToken, r.tokenCharacterIndex, Len(currentToken)),
                        patterns),
         Len(string) - characterIndex)

firstStartLoop(tokens, string, r, characterIndex, patterns) ==
  IF r.tokenIndex < Len(tokens) /\ characterIndex < Len(string)
  THEN firstStartStep(tokens, string, r, characterIndex, patterns, TokenAt(tokens, r.tokenIndex))
  ELSE cursorFinish(r, characterIndex, Len(string))

\* tokensStartWith(tokens, expectedStartingString, tokenIndex, tokenCharacterIndex)
\* of the first cursor version
firstTokensStartWith(tokens, expectedStartingString, tokenIndex, tokenCharacterIndex, patterns) ==
  IF Len(expectedStartingString) = 0 THEN MatchInfo(TRUE, tokenIndex, tokenCharacterIndex)
  ELSE firstStartLoop(tokens, expectedStartingString,
                      MatchInfo(TRUE, tokenIndex, tokenCharacterIndex), 0, patterns)

RECURSIVE firstEndLoop(_, _, _, _, _)
\* after the strings were compared (m) and tokenCharacterIndex was set (tci)
firstEndCompared(tokens, string, r, characterIndex, patterns, m, tci) ==
  IF m.threw THEN InfoThrew
  ELSE IF ~(r.matches /\ m.ok)
  THEN cursorFinish(
         IF tci = 0
         THEN MatchInfo(FALSE, r.tokenIndex - 1, Len(TokenAt(tokens, r.tokenIndex)))
         ELSE MatchInfo(FALSE, r.tokenIndex, tci),
         characterIndex, 0)
  ELSE firstEndLoop(tokens, string,
         IF tci = 0
         THEN MatchInfo(TRUE, r.tokenIndex - 1, Len(TokenAt(tokens, r.tokenIndex)))
         ELSE MatchInfo(TRUE, r.tokenIndex, tci),
         characterIndex, patterns)

\* one pass of the while loop of tokensEndWith on currentToken
firstEndStep(tokens, string, r, characterIndex, patterns, currentToken) ==
  IF characterIndex > Len(currentToken)
  THEN firstEndCompared(tokens, string, r, characterIndex - Len(currentToken), patterns,
         matchStringsOf("all",
                        substring(string, characterIndex - Len(currentToken), characterIndex),
                        currentToken, patterns),
         r.tokenCharacterIndex)
  ELSE firstEndCompared(tokens, string, r, 0, patterns,
         matchStringsOf("end", substring(string, 0, characterIndex), currentToken, patterns),
         Len(currentToken) - characterIndex)

firstEndLoop(tokens, string, r, characterIndex, patterns) ==
  IF r.tokenIndex >= 0 /\ characterIndex > 0
  THEN firstEndStep(tokens, string, r, characterIndex, patterns, TokenAt(tokens, r.tokenIndex))
  ELSE cursorFinish(r, characterIndex, 0)

\* tokensEndWith(tokens, expectedEndingString) of the first cursor version
firstTokensEndWith(tokens, expectedEndingString, patterns) ==
  IF Len(expectedEndingString) = 0
  THEN MatchInfo(TRUE, Len(tokens) - 1, Len(tokens[Len(tokens)]))
  ELSE firstEndLoop(tokens, expectedEndingString,
                    MatchInfo(TRUE, Len(tokens) - 1, Len(tokens[Len(tokens)])),
                    Len(expectedEndingString), patterns)

RECURSIVE earlierEndLoop(_, _, _, _)
\* after the comparison (ok) and the assignment of tokenCharacterIndex (tci):
\* tokens[resultInfo.tokenIndex].value is read after tokenIndex was decreased
earlierEndCompared(tokens, string, r, characterIndex, ok, tci) ==
  IF tci = 0 /\ r.tokenIndex = 0 THEN InfoThrew
  ELSE IF ~(r.matches /\ ok)
  THEN (IF tci = 0
        THEN MatchInfo(FALSE, r.tokenIndex - 1, Len(TokenAt(tokens, r.tokenIndex - 1)))
        ELSE MatchInfo(FALSE, r.tokenIndex, tci))
  ELSE earlierEndLoop(tokens, string,
         IF tci = 0
         THEN MatchInfo(TRUE, r.tokenIndex - 1, Len(TokenAt(tokens, r.tokenIndex - 1)))
         ELSE MatchInfo(TRUE, r.tokenIndex, tci),
         characterIndex)

earlierEndStep(tokens, string, r, characterIndex, currentToken) ==
  IF characterIndex > Len(currentToken)
  THEN earlierEndCompared(tokens, string, r, characterIndex - Len(currentToken),
         currentToken = substring(string, characterIndex - Len(currentToken), characterIndex),
         r.tokenCharacterIndex)
  ELSE earlierEndCompared(tokens, string, r, 0,
         SameText("end", substring(string, 0, characterIndex), currentToken),
         Len(currentToken) - characterIndex)

earlierEndLoop(tokens, string, r, characterIndex) ==
  IF r.tokenIndex >= 0 /\ characterIndex > 0
  THEN earlierEndStep(tokens, string, r, characterIndex, TokenAt(tokens, r.tokenIndex))
  ELSE r

\* tokensEndWith(tokens, string) of the version without patterns
earlierTokensEndWith(tokens, string) ==
  IF Len(string) = 0 THEN MatchInfo(TRUE, Len(tokens) - 1, Len(tokens[Len(tokens)]))
  ELSE earlierEndLoop(tokens, string,
                      MatchInfo(TRUE, Len(tokens) - 1, Len(tokens[Len(tokens)])), Len(string))

(***************************************************************************)
(* Calling tokensStartWith and tokensEndWith on token lists                *)
(***************************************************************************)
MaxTokens == 2
MaxStringLen == 3

TokenPool == { <<"a">>, <<"b">>, <<"a", "b">>, <<"b", "a">>, <<"a", "b", "a">> }
TokenLists == UNION { [1..n -> TokenPool] : n \in 1..MaxTokens }

\* the expected strings: literal text, and a placeholder of the pattern p
StringPool ==
  UNION { [1..n -> {"a", "b"}] : n \in 0..MaxStringLen } \cup { <<"(", "p", ")">> }

\* the calls: tokens, the expected string, a starting cursor inside a token,
\* and a matcher made without patterns or with the pattern p
TokenCalls ==
  { [tokens |-> ts, string |-> str, tokenIndex |-> i, tokenCharacterIndex |-> c, patterns |-> ps] :
      ts \in TokenLists, str \in StringPool, i \in 0..(MaxTokens - 1), c \in 0..2,
      ps \in {NoPatterns, PatternRegistry} }

InitTokens ==
  \E call \in {x \in TokenCalls : /\ x.tokenIndex < Len(x.tokens)
                                  /\ x.tokenCharacterIndex < Len(x.tokens[x.tokenIndex + 1])} :
    /\ config = [string |-> call.string, tokenIndex |-> call.tokenIndex,
                 tokenCharacterIndex |-> call.tokenCharacterIndex, patterns |-> call.patterns]
    /\ comments = call.tokens
    /\ formatter = NoOptions
    /\ matcher = NoOptions
    /\ outputs = <<>>
    /\ result = NoResult
    /\ previous = NoResult
    /\ input = "tokens"
    /\ headerFormatConfigOptions = NoOptions
    /\ file = NoFile
    /\ reports = <<>>
    /\ op = "new"

TokensCall(name, r) ==
  /\ op = "new"
  /\ result' = r
  /\ previous' = result
  /\ op' = name
  /\ UNCHANGED <<config, formatter, matcher, outputs, comments, input,
                 headerFormatConfigOptions, file, reports>>

\* matcher.tokensStartWith(tokens, string, tokenIndex, tokenCharacterIndex)
TokensStartWith ==
  TokensCall("tokensStartWith",
             firstTokensStartWith(comments, config.string, config.tokenIndex,
                                  config.tokenCharacterIndex, config.patterns))

\* matcher.tokensEndWith(tokens, string)
TokensEndWith ==
  TokensCall("tokensEndWith", firstTokensEndWith(comments, config.string, config.patterns))

\* matcher.tokensEndWith(tokens, string) of the version without patterns
TokensEndWithEarlier ==
  /\ ~config.patterns.set
  /\ TokensCall("tokensEndWithEarlier", earlierTokensEndWith(comments, config.string))

NextTokens == TokensStartWith \/ TokensEndWith \/ TokensEndWithEarlier

SpecTokens == InitTokens /\ [][NextTokens]_vars

(***************************************************************************)
(* header-format: the rule                                                 *)
(***************************************************************************)
\* GetSubstitution for a string search value: in the replacement text $$ stands
\* for $, $& for the matched text, $` and $' for the text before and after the
\* match at 1-based position; any other $ is kept (there are no captures)
RECURSIVE GetSubstitution(_, _, _, _)
GetSubstitution(matched, str, position, replacement) ==
  IF Len(replacement) = 0 THEN <<>>
  ELSE IF replacement[1] = "$" /\ Len(replacement) >= 2 /\ replacement[2] \in {"$", "&", "`", "'"}
       THEN (CASE replacement[2] = "$" -> <<"$">>
               [] replacement[2] = "&" -> matched
               [] replacement[2] = "`" -> SubSeq(str, 1, position - 1)
               [] replacement[2] = "'" -> SubSeq(str, position + Len(matched), Len(str)))
              \o GetSubstitution(matched, str, position, DropFirst(replacement, 2))
       ELSE <<replacement[1]>> \o GetSubstitution(matched, str, position, Tail(replacement))

RECURSIVE replaceAllFrom(_, _, _, _)
replaceAllFrom(str, search, replacement, i) ==
  IF i > Len(str) THEN <<>>
  ELSE IF StartsWithAt(str, i, search)
       THEN GetSubstitution(search, str, i, replacement)
              \o replaceAllFrom(str, search, replacement, i + Len(search))
       ELSE <<str[i]>> \o replaceAllFrom(str, search, replacement, i + 1)

\* String.prototype.replaceAll with a non-empty search string and a replacement string
replaceAll(str, search, replacement) == replaceAllFrom(str, search, replacement, 1)

\* variables: undefined, or the keys with their values in insertion order
NoVariables == [set |-> FALSE, entries |-> <<>>]
Variables(entries) == [set |-> TRUE, entries |-> entries]

RECURSIVE formatVariablesLoop(_, _)
formatVariablesLoop(entries, formatted) ==
  IF Len(entries) = 0 THEN formatted
  ELSE formatVariablesLoop(Tail(entries),
         replaceAll(formatted, <<"{">> \o entries[1].key \o <<"}">>, entries[1].value))

formatVariables(variables, str) ==
  IF ~str.set THEN None
  ELSE IF ~variables.set THEN str
  ELSE Some(formatVariablesLoop(variables.entries, str.v))

\* a check that is content with one pattern that has a defaultValue
C25_SomeHasDefault(patterns) ==
  IF patterns.set THEN \E n \in DOMAIN patterns.map : patterns.map[n].defaultValue.set ELSE TRUE

canApplyFix(patterns) ==
  IF patterns.set THEN \A n \in DOMAIN patterns.map : patterns.map[n].defaultValue.set ELSE TRUE

\* the text of a comment token in the source
CommentText(c) ==
  CASE c.type = "Block" -> <<"/", "*">> \o c.value \o <<"*", "/">>
    [] c.type = "Line" -> <<"/", "/">> \o c.value
    [] c.type = "Shebang" -> <<"#", "!">> \o c.value
    [] c.type = "Html" -> <<"<", "!", "-", "-">> \o c.value \o <<"-", "-", ">">>

\* context.sourceCode.getText(): the comments, the text between them, the rest
RECURSIVE CommentsText(_, _)
CommentsText(cs, gaps) ==
  IF Len(cs) = 0 THEN <<>>
  ELSE CommentText(cs[1])
         \o (IF Len(cs) > 1 THEN gaps[1] \o CommentsText(Tail(cs), Tail(gaps)) ELSE <<>>)

SourceText(f) == CommentsText(f.comments, f.gaps) \o f.after \o f.code

\* range[0] and range[1] of the i-th comment, the first one starting the text
RECURSIVE RangeStart(_, _)
RangeStart(f, i) ==
  IF i = 1 THEN 0
  ELSE RangeStart(f, i - 1) + Len(CommentText(f.comments[i - 1])) + Len(f.gaps[i - 1])

RangeEnd(f, i) == RangeStart(f, i) + Len(CommentText(f.comments[i]))

\* range[0] of program.body[0]
BodyStart(f) ==
  (IF Len(f.comments) = 0 THEN 0 ELSE RangeEnd(f, Len(f.comments))) + Len(f.after)

hasHeaderComment(f) ==
  IF Len(f.comments) = 0 THEN FALSE
  ELSE IF Len(f.comments) = 1 /\ f.comments[1].type = "Shebang" THEN FALSE
  ELSE TRUE

IsSingleLineBreak(t) == t \in {<<CR, LF>>, <<CR>>, <<LF>>}

\* a loop that takes every following line comment, whatever separates them
RECURSIVE C23_IgnoresSeparation(_, _)
C23_IgnoresSeparation(f, i) ==
  IF i > Len(f.comments) THEN <<>>
  ELSE IF f.comments[i].type # "Line" THEN <<>>
  ELSE <<f.comments[i]>> \o C23_IgnoresSeparation(f, i + 1)

RECURSIVE lineCommentsFrom(_, _)
lineCommentsFrom(f, i) ==
  IF i > Len(f.comments) THEN <<>>
  ELSE IF ~IsSingleLineBreak(f.gaps[i - 1]) \/ f.comments[i].type # "Line" THEN <<>>
  ELSE <<f.comments[i]>> \o lineCommentsFrom(f, i + 1)

startingIndex(f) == IF f.comments[1].type = "Shebang" THEN 2 ELSE 1

getHeaderComments(f) ==
  IF f.comments[startingIndex(f)].type \in {"Block", "Html"}
  THEN <<f.comments[startingIndex(f)]>>
  ELSE <<f.comments[startingIndex(f)]>> \o lineCommentsFrom(f, startingIndex(f) + 1)

\* getFirstContentNode: the comment or token after the last header comment,
\* the text before it, and where it starts
HasFirstContentNode(f, last) == last < Len(f.comments) \/ Len(f.code) > 0
TextAfterHeader(f, last) == IF last < Len(f.comments) THEN f.gaps[last] ELSE f.after
FirstContentStart(f, last) == RangeEnd(f, last) + Len(TextAfterHeader(f, last))

\* the capture of /^[^\w]*(@\w.*)$/ on a line, if the line matches
RECURSIVE NonWordRunLen(_, _)
NonWordRunLen(line, i) ==
  IF i <= Len(line) /\ ~IsWord(line[i]) THEN 1 + NonWordRunLen(line, i + 1) ELSE 0

PragmaOf(line) ==
  LET r == NonWordRunLen(line, 1) IN
    IF /\ r >= 1
       /\ line[r] = "@"
       /\ r < Len(line)
       /\ \A k \in (r + 1)..Len(line) : line[k] \notin LineTerminators
    THEN Some(SubSeq(line, r, Len(line)))
    ELSE None

RECURSIVE headerPragmas(_)
headerPragmas(headerCommentLines) ==
  IF Len(headerCommentLines) = 0 THEN <<>>
  ELSE (IF Truthy(PragmaOf(headerCommentLines[1]))
        THEN <<PragmaOf(headerCommentLines[1]).v>> ELSE <<>>)
         \o headerPragmas(Tail(headerCommentLines))

\* a handler that adds the pragma lines without consulting preservePragmas
C7_NoPreserveCheck(style, preservePragmas, pragmas) == style = "jsdoc" /\ Len(pragmas) > 0

\* the condition under which the pragma lines are added to headerFormatter.lines
appendsPragmas(style, preservePragmas, pragmas) ==
  style = "jsdoc" /\ preservePragmas /\ Len(pragmas) > 0

NoFix == [set |-> FALSE, text |-> <<>>]
Fix(text) == [set |-> TRUE, text |-> text]
getFixerFn(patterns, fix) == IF canApplyFix(patterns) THEN fix ELSE NoFix

\* the defaultValue of every pattern by name, or undefined without patterns
getDefaultPatternValues(patterns) ==
  IF ~patterns.set THEN NoValues
  ELSE Values([n \in DOMAIN patterns.map |-> patterns.map[n].defaultValue])

\* create(context), once the shape options and the template lines are known;
\* formatConfig has no patternValues key, the defaults are under defaultPatternValues
createWith(sourceEol, style, shape, expectedHeaderLines, defaultPatternValues) ==
  [expectedHeaderLines |-> expectedHeaderLines,
   sourceEol |-> sourceEol,
   style |-> style,
   formatConfig |-> [blockPrefix |-> shape.blockPrefix, blockSuffix |-> shape.blockSuffix,
                     linePrefix |-> shape.linePrefix, eol |-> sourceEol,
                     defaultPatternValues |-> defaultPatternValues,
                     patternValues |-> NoValues],
   headerFormatter |->
     CommentFormatter(expectedHeaderLines,
                      [blockPrefix |-> shape.blockPrefix, blockSuffix |-> shape.blockSuffix,
                       linePrefix |-> shape.linePrefix, eol |-> sourceEol,
                       patternValues |-> NoValues])]

createFor(o, sourceEol, style) ==
  createWith(sourceEol, style,
             formatConfig([blockPrefix |-> formatVariables(o.variables, o.blockPrefix),
                           blockSuffix |-> formatVariables(o.variables, o.blockSuffix),
                           linePrefix |-> formatVariables(o.variables, o.linePrefix)],
                          style, sourceEol),
             Split(normalizeEol(formatVariables(o.variables, Some(o.content)).v), <<LF>>),
             getDefaultPatternValues(o.patterns))

\* what create(context) computes before any node is visited
create(o, f) ==
  createFor(o, getEolCharacter(SourceText(f)), IF o.enableVueSupport THEN "html" ELSE o.style)

\* a missingHeader branch that takes 1 for every falsy trailingNewlines
C21_FalsyTakesOne(o, f, cr, fm) ==
  [reports |-> << [messageId |-> "missingHeader",
                   range |-> <<BodyStart(f), BodyStart(f)>>,
                   fix |-> getFixerFn(o.patterns,
                             Fix(appendNewlines(fm.text, cr.sourceEol,
                                   IF o.trailingNewlines.set /\ o.trailingNewlines.v # 0
                                   THEN o.trailingNewlines.v ELSE 1)))] >>,
   headerComments |-> <<>>,
   matched |-> FALSE,
   result |-> NoResult,
   headerFormatter |-> fm.formatter]

\* the missingHeader branch of the Program handler
reportMissingHeader(o, f, cr, fm) ==
  [reports |-> << [messageId |-> "missingHeader",
                   range |-> <<BodyStart(f), BodyStart(f)>>,
                   fix |-> getFixerFn(o.patterns,
                             Fix(appendNewlines(fm.text, cr.sourceEol,
                                   IF o.trailingNewlines.set THEN o.trailingNewlines.v ELSE 1)))] >>,
   headerComments |-> <<>>,
   matched |-> FALSE,
   result |-> NoResult,
   headerFormatter |-> fm.formatter]

\* the trailingNewlinesMismatch report, if the handler makes it; last is the
\* index of the last header comment
reportTrailingNewlines(o, f, sourceEol, last) ==
  IF /\ o.trailingNewlines.set
     /\ o.trailingNewlines.v # 0
     /\ HasFirstContentNode(f, last)
     /\ TextAfterHeader(f, last) # Repeat(sourceEol, o.trailingNewlines.v)
  THEN << [messageId |-> "trailingNewlinesMismatch",
           range |-> <<RangeEnd(f, last), FirstContentStart(f, last)>>,
           fix |-> Fix(Repeat(sourceEol, o.trailingNewlines.v))] >>
  ELSE <<>>

\* the reports of a header that was matched (r) and, on a mismatch, formatted (fm)
reportHeader(o, f, cr, values, r, merged, fm) ==
  [reports |-> (IF r.isNull
                THEN << [messageId |-> "headerContentMismatch",
                         range |-> <<RangeStart(f, startingIndex(f)),
                                     RangeEnd(f, startingIndex(f) + Len(values) - 1)>>,
                         fix |-> getFixerFn(o.patterns, Fix(fm.text))] >>
                ELSE <<>>)
               \o reportTrailingNewlines(o, f, cr.sourceEol, startingIndex(f) + Len(values) - 1),
   headerComments |-> values,
   matched |-> TRUE,
   result |-> [isNull |-> r.isNull, patternValues |-> r.patternValues],
   headerFormatter |-> IF r.isNull THEN (IF canApplyFix(o.patterns) THEN fm.formatter ELSE merged)
                       ELSE cr.headerFormatter,
   matcher |-> r.matcher]

\* headerFormatter after the pragma lines were added to its lines, if they were
mergePragmas(o, cr, pragmas) ==
  IF appendsPragmas(cr.style, o.preservePragmas, pragmas)
  THEN [cr.headerFormatter EXCEPT !.lines = @ \o <<<<>>>> \o pragmas]
  ELSE cr.headerFormatter

formatMerged(o, f, cr, values, r, merged) ==
  reportHeader(o, f, cr, values, r, merged, format(merged, cr.style))

\* the branch of the Program handler for a file that has a header comment
checkHeader(o, f, cr, values) ==
  formatMerged(o, f, cr, values,
    match(CommentBlockMatcher([blockPrefix |-> cr.formatConfig.blockPrefix,
                               blockSuffix |-> cr.formatConfig.blockSuffix,
                               linePrefix |-> cr.formatConfig.linePrefix,
                               eol |-> cr.sourceEol,
                               style |-> cr.style,
                               expectedLines |-> cr.expectedHeaderLines,
                               patterns |-> o.patterns]),
          values),
    mergePragmas(o, cr,
      headerPragmas(IF cr.style = "line" THEN values ELSE Split(values[1], cr.sourceEol))))

CommentValues(headerComments) == [k \in 1..Len(headerComments) |-> headerComments[k].value]

ProgramWith(o, f, cr) ==
  IF ~hasHeaderComment(f)
  THEN reportMissingHeader(o, f, cr, format(cr.headerFormatter, cr.style))
  ELSE checkHeader(o, f, cr, CommentValues(getHeaderComments(f)))

\* the Program handler: the reports it makes and the objects it leaves behind
Program(o, f) == ProgramWith(o, f, create(o, f))

(***************************************************************************)
(* Linting source files                                                    *)
(***************************************************************************)
ContentPool ==
  { <<"a", "b">>, <<"a", "b", LF, "c">>, <<"a", "b", CR, LF, "c">> }

RuleBlockPrefixPool == {None, Some(<<"*", CR, LF>>)}
TrailingNewlinesPool == {None, Some(1), Some(2)}

\* an option left out, or configured as the empty string
EmptyOptionPool == {None, Some(<<>>)}

\* content and a line prefix with keys in braces; d is never a key
VariableContent == <<"{", "b", "}", " ", "{", "d", "}", "{", "b", "}">>
VariableLinePrefix == <<" ", "{", "c", "}">>
VariablesPool ==
  { Variables(<< [key |-> <<"b">>, value |-> <<"2">>] >>),
    Variables(<< [key |-> <<"b">>, value |-> <<"$", "&">>] >>),
    Variables(<< [key |-> <<"b">>, value |-> <<"2">>], [key |-> <<"c">>, value |-> <<"1", "$", "$">>] >>),
    Variables(<< [key |-> <<"b">>, value |-> <<"{", "c", "}">>], [key |-> <<"c">>, value |-> <<"1">>] >>),
    Variables(<< [key |-> <<"c">>, value |-> <<"1">>], [key |-> <<"b">>, value |-> <<"{", "c", "}">>] >>) }

\* registries in which every, no, or only one of two patterns has a defaultValue
RulePatternsPool ==
  { PatternRegistry,
    Registry([n \in {PName} |-> [pattern |-> WordPattern, defaultValue |-> None]]),
    Registry([n \in {PName, <<"q">>} |->
                [pattern |-> WordPattern,
                 defaultValue |-> IF n = PName THEN Some(<<"1">>) ELSE None]]) }

\* content with a placeholder of the registered pattern
PatternContent == <<"a", "b", " ", "(", "p", ")">>

RuleOptions ==
  { [style |-> st, enableVueSupport |-> vue, preservePragmas |-> pp, content |-> ct,
     blockPrefix |-> bp, blockSuffix |-> None, linePrefix |-> None,
     variables |-> NoVariables, patterns |-> NoPatterns, trailingNewlines |-> tn] :
      st \in {"jsdoc", "line"}, vue \in BOOLEAN, pp \in BOOLEAN, ct \in ContentPool,
      bp \in RuleBlockPrefixPool, tn \in TrailingNewlinesPool }
  \cup
  { [style |-> st, enableVueSupport |-> vue, preservePragmas |-> TRUE, content |-> ct,
     blockPrefix |-> bp, blockSuffix |-> bs, linePrefix |-> lp,
     variables |-> NoVariables, patterns |-> NoPatterns, trailingNewlines |-> tn] :
      st \in {"jsdoc", "line"}, vue \in BOOLEAN, ct \in {<<"a", "b">>, <<"a", "b", LF, "c">>},
      bp \in EmptyOptionPool, bs \in EmptyOptionPool, lp \in EmptyOptionPool,
      tn \in {None, Some(0)} }
  \cup
  { [style |-> st, enableVueSupport |-> vue, preservePragmas |-> TRUE, content |-> VariableContent,
     blockPrefix |-> None, blockSuffix |-> None, linePrefix |-> lp,
     variables |-> vs, patterns |-> NoPatterns, trailingNewlines |-> None] :
      st \in {"jsdoc", "line"}, vue \in BOOLEAN, lp \in {None, Some(VariableLinePrefix)},
      vs \in VariablesPool }
  \cup
  { [style |-> st, enableVueSupport |-> vue, preservePragmas |-> TRUE, content |-> PatternContent,
     blockPrefix |-> None, blockSuffix |-> None, linePrefix |-> None,
     variables |-> NoVariables, patterns |-> ps, trailingNewlines |-> tn] :
      st \in {"jsdoc", "line"}, vue \in BOOLEAN, ps \in RulePatternsPool,
      tn \in TrailingNewlinesPool }

EffectiveStyle(o) == IF o.enableVueSupport THEN "html" ELSE o.style

\* the header header-format expects for options o in a file using e, a value
\* standing in each placeholder of a registered pattern
ExpectedHeader(o, e) ==
  LET lines == Split(normalizeEol(Fill(o.content, o, <<"a", "1">>)), <<LF>>)
      shape == formatConfig(o, EffectiveStyle(o), e)
  IN format(CommentFormatter(lines, [blockPrefix |-> shape.blockPrefix,
                                     blockSuffix |-> shape.blockSuffix,
                                     linePrefix |-> shape.linePrefix,
                                     eol |-> e, patternValues |-> NoValues]),
            EffectiveStyle(o)).text

PragmaPool == << <<"@", "a", " ", "b">>, <<"@", "b", "1">> >>

\* the value of a block comment with the pragma lines ps before its last line
WithPragmas(o, e, value, ps) ==
  LET shape == formatConfig(o, EffectiveStyle(o), e)
      suffix == normalizeEol(shape.blockSuffix.v)
  IN SubSeq(value, 1, Len(value) - Len(suffix))
       \o Concat([k \in 1..Len(ps) |-> <<LF>> \o shape.linePrefix.v \o ps[k]])
       \o suffix

BlockFile(label, type, value, e) ==
  [input |-> label, comments |-> <<[type |-> type, value |-> value]>>, gaps |-> <<>>,
   after |-> e, code |-> <<"c">>]

LineFile(label, values, e) ==
  [input |-> label, comments |-> [k \in 1..Len(values) |-> [type |-> "Line", value |-> values[k]]],
   gaps |-> [k \in 1..(Len(values) - 1) |-> e], after |-> e, code |-> <<"c">>]

\* the position in the CRLF, CR, LF cycle at which the first line break is e
MixStart(e) == IF e = <<LF>> THEN 2 ELSE 0

\* str with each '{key}' of a key of the variables replaced by the key's value
\* as written, in one pass from left to right
RECURSIVE SubstituteVariables(_, _, _)
SubstituteVariables(str, entries, i) ==
  IF i > Len(str) THEN <<>>
  ELSE LET hits == {k \in 1..Len(entries) : StartsWithAt(str, i, <<"{">> \o entries[k].key \o <<"}">>)}
       IN IF hits = {} THEN <<str[i]>> \o SubstituteVariables(str, entries, i + 1)
          ELSE LET k == CHOOSE x \in hits : TRUE
               IN entries[k].value \o SubstituteVariables(str, entries, i + Len(entries[k].key) + 2)

SubstituteOption(opt, entries) ==
  IF opt.set THEN Some(SubstituteVariables(opt.v, entries, 1)) ELSE opt

\* options o with the variables written into the content and the decorations
WithVariablesApplied(o) ==
  IF ~o.variables.set THEN o
  ELSE [o EXCEPT !.content = SubstituteVariables(o.content, o.variables.entries, 1),
                 !.blockPrefix = SubstituteOption(o.blockPrefix, o.variables.entries),
                 !.blockSuffix = SubstituteOption(o.blockSuffix, o.variables.entries),
                 !.linePrefix = SubstituteOption(o.linePrefix, o.variables.entries),
                 !.variables = NoVariables]

\* files for options with variables: no header, and the header that holds the
\* values of the variables as written
VariableFiles(o, e) ==
  LET style == EffectiveStyle(o)
      values == toFragments(style, ExpectedHeader(WithVariablesApplied(o), e))
  IN { [input |-> "noHeader", comments |-> <<>>, gaps |-> <<>>, after |-> <<>>,
        code |-> <<"c">> \o e],
       IF style = "line" THEN LineFile("substituted", values, e)
       ELSE BlockFile("substituted", IF style = "html" THEN "Html" ELSE "Block", values[1], e) }

\* a file that starts with a shebang line and has no other comment
ShebangFiles(o, e) ==
  IF o.enableVueSupport THEN {}
  ELSE { [input |-> "shebang", comments |-> <<[type |-> "Shebang", value |-> <<" ", "a">>]>>,
          gaps |-> <<>>, after |-> e, code |-> <<"c">> \o e] }

\* a file of several comments cs with the texts gaps between them
CommentsFile(label, cs, gaps, e) ==
  [input |-> label, comments |-> cs, gaps |-> gaps, after |-> e, code |-> <<"c">>]

LineComment(value) == [type |-> "Line", value |-> value]
BlockComment(value) == [type |-> "Block", value |-> value]

\* files in which comments follow the first comment, or a shebang precedes it
ExtentFiles(o, e, style, values, v) ==
  IF o.enableVueSupport THEN {}
  ELSE IF style = "line"
  THEN { CommentsFile("split", <<LineComment(values[1]), LineComment(<<" ", "c">>)>>, <<e \o e>>, e),
         CommentsFile("indented", <<LineComment(values[1]), LineComment(<<" ", "c">>)>>,
                      <<e \o <<" ">> >>, e),
         CommentsFile("adjacent", <<LineComment(values[1]), LineComment(<<" ", "c">>),
                                    LineComment(<<" ", "d">>)>>, <<e, e>>, e),
         CommentsFile("adjacentThenSplit", <<LineComment(values[1]), LineComment(<<" ", "c">>),
                                            LineComment(<<" ", "d">>)>>, <<e, e \o e>>, e),
         CommentsFile("lineThenBlock", <<LineComment(values[1]), BlockComment(<<" ", "c">>),
                                         LineComment(<<" ", "d">>)>>, <<e, e>>, e),
         CommentsFile("shebangLines", <<[type |-> "Shebang", value |-> <<" ", "a">>],
                                        LineComment(values[1]), LineComment(<<" ", "c">>)>>,
                      <<e, e>>, e) }
  ELSE { CommentsFile("blockThenLine", <<BlockComment(WithEol(v, e)), LineComment(<<" ", "c">>)>>,
                      <<e>>, e),
         CommentsFile("blockThenBlock", <<BlockComment(WithEol(v, e)), BlockComment(<<" ", "c">>)>>,
                      <<e>>, e),
         CommentsFile("wrongThenLine", <<BlockComment(WithEol(<<"c">> \o v, e)),
                                         LineComment(<<" ", "c">>)>>, <<e>>, e),
         CommentsFile("linesThenBlock", <<LineComment(<<" ", "c">>), LineComment(<<" ", "d">>),
                                          BlockComment(WithEol(v, e))>>, <<e, e>>, e),
         CommentsFile("shebangBlock", <<[type |-> "Shebang", value |-> <<" ", "a">>],
                                        BlockComment(WithEol(v, e))>>, <<e>>, e) }

FilesOf(o, e) ==
  LET style == EffectiveStyle(o)
      values == toFragments(style, ExpectedHeader(o, e))
      type == IF style = "html" THEN "Html" ELSE "Block"
      v == normalizeEol(values[1])
  IN IF o.variables.set THEN VariableFiles(o, e) ELSE
     { [input |-> "noHeader", comments |-> <<>>, gaps |-> <<>>, after |-> <<>>,
        code |-> <<"c">> \o e] }
     \cup ShebangFiles(o, e)
     \cup ExtentFiles(o, e, style, values, v)
     \cup
     (IF style = "line"
      THEN { LineFile("expected", values, e),
             [LineFile("spaced", values, e) EXCEPT !.after = e \o e],
             LineFile("pragma", << <<" ", "c">>, <<" ">> \o PragmaPool[1] >>, e),
             LineFile("wrong", << <<" ", "c">> >>, e) }
      ELSE { BlockFile("expected", type, WithEol(v, e), e),
             [BlockFile("spaced", type, WithEol(v, e), e) EXCEPT !.after = e \o e],
             BlockFile("mixedEol", type, MixedEol(v, MixStart(e)), e),
             BlockFile("extraLines", type, WithEol(WithPragmas(o, e, v, PragmaPool), e), e),
             BlockFile("extraBlankLine", type,
                       WithEol(WithPragmas(o, e, v, <<<<>>>> \o PragmaPool), e), e),
             BlockFile("pragma", type,
                       WithEol(WithPragmas(o, e, <<"c">> \o v, SubSeq(PragmaPool, 1, 1)), e), e),
             BlockFile("pragmas", type, WithEol(WithPragmas(o, e, <<"c">> \o v, PragmaPool), e), e),
             BlockFile("pragmasMixedEol", type,
                       MixedEol(WithPragmas(o, e, <<"c">> \o v, PragmaPool), MixStart(e)), e),
             BlockFile("wrong", type, WithEol(<<"c">> \o v, e), e) })

RuleCases ==
  UNION { {[options |-> o, file |-> f] : f \in FilesOf(o, e)} :
            o \in {x \in RuleOptions : ~(x.style = "line" /\ (x.enableVueSupport \/ Truthy(x.blockPrefix)))},
            e \in Eols }

NoMatcher == [style |-> "none"]

RuleStart(rc, cr) ==
  /\ headerFormatConfigOptions = rc.options
  /\ file = rc.file
  /\ config = cr.formatConfig
  /\ formatter = cr.headerFormatter
  /\ matcher = NoMatcher
  /\ outputs = <<>>
  /\ comments = <<>>
  /\ result = NoResult
  /\ previous = NoResult
  /\ input = rc.file.input
  /\ reports = <<>>
  /\ op = "new"

InitRule == \E rc \in RuleCases : RuleStart(rc, create(rc.options, rc.file))

LintWith(p, name) ==
  /\ reports' = p.reports
  /\ comments' = p.headerComments
  /\ result' = p.result
  /\ formatter' = p.headerFormatter
  /\ matcher' = IF p.matched THEN p.matcher ELSE matcher
  /\ previous' = result
  /\ op' = name
  /\ UNCHANGED <<config, outputs, input, headerFormatConfigOptions, file>>

\* ESLint visits the Program node of the file
Lint ==
  /\ op = "new"
  /\ LintWith(Program(headerFormatConfigOptions, file), "lint")

\* the comment tokens of a formatted header: one block or html comment, or one
\* line comment per line
ParsedComments(style, text) ==
  CASE style = "jsdoc" -> <<BlockComment(toFragments(style, text)[1])>>
    [] style = "html" -> <<[type |-> "Html", value |-> toFragments(style, text)[1]]>>
    [] style = "line" ->
         [k \in 1..Len(toFragments(style, text)) |-> LineComment(toFragments(style, text)[k])]

\* the file after fixer.replaceTextRange put the comments parsed in place of
\* the header comments first..last
FixedFile(f, first, last, parsed, e) ==
  [input |-> "fixed",
   comments |-> SubSeq(f.comments, 1, first - 1) \o parsed
                  \o SubSeq(f.comments, last + 1, Len(f.comments)),
   gaps |-> SubSeq(f.gaps, 1, first - 1) \o [k \in 1..(Len(parsed) - 1) |-> e]
              \o SubSeq(f.gaps, last, Len(f.gaps)),
   after |-> f.after,
   code |-> f.code]

FixedWith(fixed, cr) ==
  /\ file' = fixed
  /\ input' = fixed.input
  /\ config' = cr.formatConfig
  /\ formatter' = cr.headerFormatter
  /\ reports' = <<>>
  /\ comments' = <<>>
  /\ result' = NoResult
  /\ previous' = result
  /\ op' = "fixed"
  /\ UNCHANGED <<matcher, outputs, headerFormatConfigOptions>>

FixedTo(fixed) == FixedWith(fixed, create(headerFormatConfigOptions, fixed))

\* ESLint applies the fix of the headerContentMismatch report; a later run of
\* the rule on the fixed file starts from create
ApplyFix ==
  /\ op = "lint"
  /\ Len(reports) >= 1
  /\ reports[1].messageId = "headerContentMismatch"
  /\ reports[1].fix.set
  /\ FixedTo(FixedFile(file, startingIndex(file), startingIndex(file) + Len(comments) - 1,
                       ParsedComments(EffectiveStyle(headerFormatConfigOptions), reports[1].fix.text),
                       getEolCharacter(SourceText(file))))

\* ESLint visits the Program node of the fixed file
Relint ==
  /\ op = "fixed"
  /\ LintWith(Program(headerFormatConfigOptions, file), "relint")

NextRule == Lint \/ ApplyFix \/ Relint

SpecRule == InitRule /\ [][NextRule]_vars

(***************************************************************************)
(* Claims                                                                  *)
(***************************************************************************)
\* C1: round trip. The comments of format(style), matched by a matcher built
\* from the same template lines and shape, give a non-null result (stated for
\* shapes resolved as header-format resolves them, without patterns).
C1_RoundTrip ==
  (op = "matchFormatted" /\ ~config.patterns.set /\ ~config.patternValues.set /\ IsResolved(config))
    => ~result.isNull

\* C2: format idempotence. Two calls of format(style) on the same formatter
\* return identical strings.
C2_FormatIdempotent ==
  \A i, j \in 1..Len(outputs) : outputs[i] = outputs[j]

\* the placeholders of registered patterns in the template, in template order
RECURSIVE PlaceholderNames(_, _)
PlaceholderNames(lines, names) ==
  IF Len(lines) = 0 THEN <<>>
  ELSE [k \in 1..Len(getPatterns(lines[1], names)) |-> getPatterns(lines[1], names)[k].name]
         \o PlaceholderNames(Tail(lines), names)

Occurrences(seq, n) == Cardinality({k \in 1..Len(seq) : seq[k] = n})

\* C3: captured values. A successful match maps each registered pattern that
\* has a placeholder in the template to one captured value per occurrence.
C3_CapturedValues ==
  (op = "matchFormatted" /\ ~result.isNull /\ config.patterns.set)
    => LET used == PlaceholderNames(config.expectedLines, DOMAIN config.patterns.map) IN
       \A k \in 1..Len(used) :
         /\ used[k] \in DOMAIN result.patternValues
         /\ Len(result.patternValues[used[k]]) = Occurrences(used, used[k])
\* C4: for the jsdoc and html styles a matching single fragment still matches
\* when the same text is handed over cut into two fragments at any position.
C4_FragmentBoundaryIndependence ==
  (op = "matchSplit" /\ ~previous.isNull) => ~result.isNull

\* the text divides into blockPrefix and body at its start and blockSuffix at
\* its end, the suffix region starting no earlier than the body region ends
NonOverlapping(m, text) ==
  \E e \in Ends(m.prefixedBodyRegex, 1, text, {0}) :
    Ends(m.suffixRegex, 1, text, e..Len(text)) # {}

\* C5: match returns a non-null result only if the prefix-and-body region and
\* the suffix region of the actual text share no character.
C5_NoOverlappingAnchors ==
  (op = "match" /\ ~result.isNull) => NonOverlapping(matcher, ActualCommentContent(comments))

\* the fix offered with the headerContentMismatch report of the last lint
\* the header was reported and a replacement is offered
HasMismatch ==
  /\ op = "lint"
  /\ Len(reports) >= 1
  /\ reports[1].messageId = "headerContentMismatch"
  /\ reports[1].fix.set
MismatchFix == reports[1].fix.text

\* the header a formatter holding the template lines followed by extra writes
FormattedWith(extra) ==
  LET cr == create(headerFormatConfigOptions, file) IN
    format([cr.headerFormatter EXCEPT !.lines = @ \o extra], cr.style).text

\* the pragmas of the lines of the old header, whatever line break ends a line
OldPragmas == headerPragmas(Split(normalizeEol(comments[1]), <<LF>>))

\* C6: with style jsdoc and preservePragmas, the replacement header is the
\* template, one blank line, and every pragma line of the old header from its
\* '@' onward in original order, whatever line breaks the old header uses.
C6_PragmaPreservation ==
  (HasMismatch /\ EffectiveStyle(headerFormatConfigOptions) = "jsdoc"
     /\ headerFormatConfigOptions.preservePragmas)
    => MismatchFix = FormattedWith(IF Len(OldPragmas) = 0 THEN <<>> ELSE <<<<>>>> \o OldPragmas)

\* C7: the replacement header is exactly the formatted template when
\* preservePragmas is false or the style is line; it differs from the template
\* only when style is jsdoc, preservePragmas is true and the old header has a
\* pragma line.
C7_PragmaGating ==
  HasMismatch =>
    /\ (~headerFormatConfigOptions.preservePragmas \/ EffectiveStyle(headerFormatConfigOptions) = "line")
         => MismatchFix = FormattedWith(<<>>)
    /\ MismatchFix # FormattedWith(<<>>)
         => /\ EffectiveStyle(headerFormatConfigOptions) = "jsdoc"
            /\ headerFormatConfigOptions.preservePragmas
            /\ Len(OldPragmas) > 0

C7_Witness ==
  /\ HasMismatch
  /\ file.input = "pragmas"
  /\ EffectiveStyle(headerFormatConfigOptions) = "jsdoc"
  /\ ~headerFormatConfigOptions.preservePragmas
  /\ Len(OldPragmas) = 2
  /\ MismatchFix = FormattedWith(<<>>)

HasLineBreak(s, breaks) == \E k \in 1..Len(s) : s[k] \in breaks

UnregisteredNames(c) ==
  UNION { {SubSeq(c.expectedLines[k], i + 1, i + WordRunLen(c.expectedLines[k], i + 1)) :
             i \in {j \in 1..Len(c.expectedLines[k]) : PlaceholderAt(c.expectedLines[k], j)}}
          : k \in 1..Len(c.expectedLines) }
    \ DOMAIN c.patterns.map

\* C9: a parenthesised word whose name is not a registry key is matched as its
\* literal characters and adds no entry to the result, with or without a registry.
C9_PatternIsolation ==
  (op = "match" /\ input = "expected" /\ UnregisteredNames(config) # {})
    => /\ ~result.isNull
       /\ DOMAIN result.patternValues \cap UnregisteredNames(config) = {}

\* C10: match ends with a result and never throws, whatever the comments hold;
\* too little text and literal text that differs around a placeholder are
\* ordinary mismatches.
C10_MismatchIsData ==
  op \in {"cursorMatch", "cursorMatchAgain"} => ~result.threw

ExpectedComments(c) == AsComments(c.style, ExpectedText(c, <<"a", "1">>))

\* c with the trailing whitespace of every template line removed
TrimmedTemplate(c) ==
  [c EXCEPT !.expectedLines = [k \in 1..Len(c.expectedLines) |-> trimEnd(c.expectedLines[k])]]

\* C12: trailing whitespace never decides a match. Removing the trailing
\* spaces of the template lines leaves the result unchanged, and a header that
\* is matched is still matched when its body lines carry trailing spaces.
C12_TrailingWhitespaceTolerance ==
  /\ op = "match"
       => match(CommentBlockMatcher(TrimmedTemplate(config)), comments).isNull = result.isNull
  /\ (op = "match" /\ input = "trailingSpaces"
        /\ ~match(CommentBlockMatcher(config), ExpectedComments(config)).isNull)
       => ~result.isNull

\* text begins with blockPrefix and the decorated, right-trimmed template lines
\* and ends with blockSuffix, character for character
LiteralAccepts(c, text) ==
  /\ StartsWithAt(text, 1, NormalizedOption(c.blockPrefix) \o ExpectedBody(c, <<>>))
  /\ Len(text) >= Len(NormalizedOption(c.blockSuffix))
  /\ SubSeq(text, Len(text) - Len(NormalizedOption(c.blockSuffix)) + 1, Len(text))
       = NormalizedOption(c.blockSuffix)

\* C13: a template without placeholders of registered patterns is matched
\* exactly by the texts that begin with its literal characters and end with the
\* literal block suffix; regex metacharacters of the template stand for themselves.
C13_LiteralEscaping ==
  (op = "match" /\ PlaceholderNames(config.expectedLines, DOMAIN config.patterns.map) = <<>>)
    => (~result.isNull <=> LiteralAccepts(config, ActualCommentContent(comments)))

\* other templates a configuration is compared with
OtherTemplates == {Template(n, k) : n \in {1, 2}, k \in {0, MaxLines}}

\* C14: for the comments at hand, the prefix-and-body test gives the same
\* verdict under every blockSuffix, the suffix test gives the same verdict under
\* every blockPrefix, linePrefix and template, and match returns a non-null
\* result exactly when both tests pass.
C14_PrefixSuffixIndependence ==
  op = "match" =>
    /\ \A bs \in BlockSuffixPool :
         PrefixedBodyMatch(CommentBlockMatcher([config EXCEPT !.blockSuffix = bs]), comments)
           = PrefixedBodyMatch(matcher, comments)
    /\ \A bp \in BlockPrefixPool, lp \in LinePrefixPool, t \in OtherTemplates :
         SuffixMatch(CommentBlockMatcher([config EXCEPT !.blockPrefix = bp, !.linePrefix = lp,
                                                        !.expectedLines = t]), comments)
           = SuffixMatch(matcher, comments)
    /\ ~result.isNull <=> (PrefixedBodyMatch(matcher, comments) /\ SuffixMatch(matcher, comments))

C14_Witness ==
  /\ op = "match"
  /\ input = "noSuffix"
  /\ config.blockSuffix = Some(<<"b">>)
  /\ config.linePrefix = Some(<<" ", "*", " ">>)
  /\ Len(config.expectedLines) = 2
  /\ PrefixedBodyMatch(matcher, comments)
  /\ ~SuffixMatch(matcher, comments)
  /\ PrefixedBodyMatch(CommentBlockMatcher([config EXCEPT !.blockSuffix = Some(<<>>)]), comments)
  /\ SuffixMatch(CommentBlockMatcher([config EXCEPT !.blockSuffix = Some(<<>>)]), comments)
  /\ result.isNull

\* the template lines, each preceded by linePrefix and right-trimmed, joined by eol
LayoutBody(c, linePrefix) ==
  Join([k \in 1..Len(c.expectedLines) |-> trimEnd(linePrefix \o c.expectedLines[k])], c.eol)

\* the enclosed comment of configuration c, unset options at their style defaults
EnclosedLayout(c) ==
  IF c.style = "jsdoc"
  THEN <<"/", "*">> \o Coalesce(c.blockPrefix, <<"*">> \o c.eol)
         \o LayoutBody(c, Coalesce(c.linePrefix, <<" ", "*", " ">>))
         \o Coalesce(c.blockSuffix, c.eol \o <<" ">>) \o <<"*", "/">>
  ELSE <<"<", "!", "-", "-">> \o Coalesce(c.blockPrefix, c.eol)
         \o LayoutBody(c, Coalesce(c.linePrefix, <<" ", " ">>))
         \o Coalesce(c.blockSuffix, c.eol) \o <<"-", "-", ">">>

\* no template line holds a placeholder for which values were supplied
NoSuppliedPlaceholder(c) ==
  PlaceholderNames(c.expectedLines, DOMAIN c.patternValues.map) = <<>>

\* C15: format('jsdoc') and format('html') return the opening delimiter, the
\* block prefix, the decorated right-trimmed template lines joined by eol, the
\* block suffix and the closing delimiter, with the style defaults for unset
\* options (stated for templates whose placeholders get no supplied value).
C15_EnclosedLayout ==
  (config.style \in {"jsdoc", "html"} /\ NoSuppliedPlaceholder(config))
    => \A i \in 1..Len(outputs) : outputs[i] = EnclosedLayout(config)

\* the line comments of configuration c: one per template line, and one more
\* in front for a non-empty blockPrefix and at the end for a non-empty blockSuffix
LineLayout(c) ==
  (IF c.blockPrefix.set /\ c.blockPrefix.v # <<>>
   THEN <<"/", "/">> \o c.blockPrefix.v \o c.eol ELSE <<>>)
    \o Join([k \in 1..Len(c.expectedLines) |->
               trimEnd(<<"/", "/">> \o Coalesce(c.linePrefix, <<" ">>) \o c.expectedLines[k])], c.eol)
    \o (IF c.blockSuffix.set /\ c.blockSuffix.v # <<>>
        THEN c.eol \o <<"/", "/">> \o c.blockSuffix.v ELSE <<>>)

\* C16: format('line') writes no delimiters: each template line becomes '//',
\* the linePrefix (one space if unset) and the line, right-trimmed, joined by
\* eol; only a non-empty blockPrefix or blockSuffix adds a comment line.
C16_LineLayout ==
  config.style = "line" => \A i \in 1..Len(outputs) : outputs[i] = LineLayout(config)

C16_Witness ==
  /\ config.style = "line"
  /\ config.blockPrefix = Some(<<>>)
  /\ config.blockSuffix = Some(<<"b">>)
  /\ config.linePrefix = None
  /\ config.expectedLines = << <<"a", " ">>, <<"(", "q", ")", ".">> >>
  /\ config.eol = <<CR, LF>>
  /\ Len(outputs) = 2
  /\ outputs[2] = <<"/", "/", " ", "a", CR, LF, "/", "/", " ", "(", "q", ")", ".", CR, LF, "/", "/", "b">>

\* text with the k-th placeholder of each name replaced by the k-th value
\* supplied for that name, every other character kept
Substituted(text, values) ==
  formatPatternValuesLoop(text, getPatterns(text, DOMAIN values), 0, values).text

\* what format(style) returns for configuration c when no values are supplied
WithoutValues(c) ==
  format(CommentFormatter(c.expectedLines, [c EXCEPT !.patternValues = NoValues]), c.style).text

\* C17: for every style, the first output of a formatter with pattern values is
\* the output without pattern values in which each placeholder occurrence is
\* replaced by the next supplied value of its name, all other characters
\* (line prefixes, block prefix and suffix) unchanged.
C17_PatternValueSubstitution ==
  (config.patternValues.set /\ Len(outputs) >= 1)
    => outputs[1] = Substituted(WithoutValues(config), config.patternValues.map)

\* the first report of the last lint carries a replacement or inserted header
HasHeaderFix ==
  /\ op = "lint"
  /\ Len(reports) >= 1
  /\ reports[1].messageId \in {"missingHeader", "headerContentMismatch"}
  /\ reports[1].fix.set

\* the configured header with each placeholder rendered as its pattern's default
DefaultsHeader(o, e) ==
  LET shape == formatConfig(o, EffectiveStyle(o), e)
  IN format(CommentFormatter(
              Split(normalizeEol(Fill(o.content, o, o.patterns.map[PName].defaultValue.v)), <<LF>>),
              [blockPrefix |-> shape.blockPrefix, blockSuffix |-> shape.blockSuffix,
               linePrefix |-> shape.linePrefix, eol |-> e, patternValues |-> NoValues]),
            EffectiveStyle(o)).text

\* C18: when every pattern has a defaultValue, the header text that
\* header-format offers as a fix holds no placeholder of a registered pattern,
\* and an inserted header is the template with the defaults in their place.
C18_DefaultValueFallback ==
  (HasHeaderFix /\ headerFormatConfigOptions.patterns.set)
    => /\ getPatterns(reports[1].fix.text, DOMAIN headerFormatConfigOptions.patterns.map) = <<>>
       /\ reports[1].messageId = "missingHeader"
            => reports[1].fix.text =
                 appendNewlines(DefaultsHeader(headerFormatConfigOptions, getEolCharacter(SourceText(file))),
                                getEolCharacter(SourceText(file)),
                                IF headerFormatConfigOptions.trailingNewlines.set
                                THEN headerFormatConfigOptions.trailingNewlines.v ELSE 1)

\* the header that options o describe for a file using e: the configured
\* decorations where given, the empty string included, the style defaults otherwise
RuleLayout(o, e) ==
  LET c == [style |-> EffectiveStyle(o), eol |-> e, blockPrefix |-> o.blockPrefix,
            blockSuffix |-> o.blockSuffix, linePrefix |-> o.linePrefix,
            expectedLines |-> Split(normalizeEol(o.content), <<LF>>)]
  IN IF c.style = "line" THEN LineLayout(c) ELSE EnclosedLayout(c)

HasEmptyOption(o) ==
  o.style # "none" /\ Some(<<>>) \in {o.blockPrefix, o.blockSuffix, o.linePrefix}

\* C19: with blockPrefix, blockSuffix or linePrefix configured as the empty
\* string, a missing header is inserted with the empty string in that place, a
\* file that starts with such a header gets no headerContentMismatch, and a
\* wrong header is replaced by such a header.
C19_ExplicitEmptyOverridesDefault ==
  (op = "lint" /\ HasEmptyOption(headerFormatConfigOptions) /\ ~headerFormatConfigOptions.patterns.set) =>
    LET o == headerFormatConfigOptions
        e == getEolCharacter(SourceText(file))
    IN /\ file.input = "noHeader"
            => /\ reports[1].messageId = "missingHeader"
               /\ reports[1].fix.text =
                    appendNewlines(RuleLayout(o, e), e,
                                   IF o.trailingNewlines.set THEN o.trailingNewlines.v ELSE 1)
       /\ (file.input \in {"expected", "spaced"} /\ StartsWithAt(SourceText(file), 1, RuleLayout(o, e)))
            => \A k \in 1..Len(reports) : reports[k].messageId # "headerContentMismatch"
       /\ file.input = "wrong" => (HasMismatch /\ MismatchFix = RuleLayout(o, e))

C19_Witness ==
  /\ op = "lint"
  /\ headerFormatConfigOptions.style = "jsdoc" /\ ~headerFormatConfigOptions.enableVueSupport
  /\ headerFormatConfigOptions.blockPrefix = Some(<<>>)
  /\ headerFormatConfigOptions.blockSuffix = Some(<<>>)
  /\ headerFormatConfigOptions.linePrefix = Some(<<>>)
  /\ headerFormatConfigOptions.trailingNewlines = Some(0)
  /\ file.input = "expected"
  /\ SourceText(file) = <<"/", "*", "a", "b", "*", "/", LF, "c">>
  /\ reports = <<>>

\* C20: the variables are written into the content and the decorations before
\* the template is split into lines: each '{key}' of a key becomes the key's
\* value, other text in braces stays, and the result is the header enforced
\* (inserted when missing, accepted when present).
C20_VariableSubstitution ==
  headerFormatConfigOptions.variables.set =>
    LET o == WithVariablesApplied(headerFormatConfigOptions)
        e == getEolCharacter(SourceText(file))
    IN /\ op = "new" => formatter.lines = Split(normalizeEol(o.content), <<LF>>)
       /\ (op = "new" /\ o.linePrefix.set) => config.linePrefix = o.linePrefix
       /\ (op = "lint" /\ file.input = "noHeader")
            => reports[1].fix.text = appendNewlines(RuleLayout(o, e), e, 1)
       /\ (op = "lint" /\ file.input = "substituted")
            => \A k \in 1..Len(reports) : reports[k].messageId # "headerContentMismatch"

\* the header header-format formats for the options and the file of this run
FormattedHeader ==
  format(create(headerFormatConfigOptions, file).headerFormatter,
         EffectiveStyle(headerFormatConfigOptions)).text

FileEol == getEolCharacter(SourceText(file))

NoCommentBeforeProgram ==
  \/ Len(file.comments) = 0
  \/ Len(file.comments) = 1 /\ file.comments[1].type = "Shebang"

\* C21: missing header. A file with no comment before the program, or with a
\* shebang as the only one, gets exactly one report, missingHeader; its fix,
\* when there is one, inserts the formatted header followed by trailingNewlines
\* line breaks of the file, 1 when the option is not configured, 0 when it is 0.
C21_MissingHeader ==
  (op = "lint" /\ NoCommentBeforeProgram) =>
    /\ Len(reports) = 1
    /\ reports[1].messageId = "missingHeader"
    /\ reports[1].fix.set =>
         reports[1].fix.text =
           FormattedHeader
             \o Repeat(FileEol, IF headerFormatConfigOptions.trailingNewlines.set
                                THEN headerFormatConfigOptions.trailingNewlines.v ELSE 1)

\* a file with only a shebang was linted with trailingNewlines 0 and the fix
\* inserts the header with no line break after it
C21_Witness ==
  /\ op = "lint"
  /\ input = "shebang"
  /\ headerFormatConfigOptions.trailingNewlines = Some(0)
  /\ Len(reports) = 1
  /\ reports[1].fix.set
  /\ reports[1].fix.text = FormattedHeader

\* the index of the last comment of the header of the linted file
LastHeaderComment == startingIndex(file) + Len(getHeaderComments(file)) - 1

TrailingReports == {k \in 1..Len(reports) : reports[k].messageId = "trailingNewlinesMismatch"}

\* C22: trailing-newline enforcement. With trailingNewlines = N >= 0 and a
\* header followed by another comment or token, trailingNewlinesMismatch is
\* reported exactly when the text between the header and what follows is not
\* N line breaks of the file, and its fix replaces that text by N line breaks.
C22_TrailingNewlines ==
  (/\ op = "lint"
   /\ ~NoCommentBeforeProgram
   /\ headerFormatConfigOptions.trailingNewlines.set
   /\ HasFirstContentNode(file, LastHeaderComment))
    => /\ (TrailingReports # {})
            <=> (TextAfterHeader(file, LastHeaderComment)
                   # Repeat(FileEol, headerFormatConfigOptions.trailingNewlines.v))
       /\ \A k \in TrailingReports :
            /\ reports[k].fix = Fix(Repeat(FileEol, headerFormatConfigOptions.trailingNewlines.v))
            /\ reports[k].range = <<RangeEnd(file, LastHeaderComment),
                                    FirstContentStart(file, LastHeaderComment)>>

\* the first comment of the file that is not a shebang
FirstHeaderComment == IF file.comments[1].type = "Shebang" THEN 2 ELSE 1

\* comment j is a line comment that one line break separates from comment j - 1
FollowsOnNextLine(j) ==
  /\ file.comments[j].type = "Line"
  /\ file.gaps[j - 1] \in {<<LF>>, <<CR>>, <<CR, LF>>}

\* the indices of the comments of the header as the extent rule gives them
HeaderExtent ==
  IF file.comments[FirstHeaderComment].type # "Line" THEN {FirstHeaderComment}
  ELSE {m \in FirstHeaderComment..Len(file.comments) :
          \A j \in (FirstHeaderComment + 1)..m : FollowsOnNextLine(j)}

LastOf(S) == CHOOSE m \in S : \A k \in S : k <= m

\* C23: header extent. A first non-shebang block comment is the header alone;
\* a first line comment is the header together with each following line comment
\* that exactly one line break separates from the one before it. The header
\* handed to the matcher is these comments, a headerContentMismatch fix replaces
\* exactly their range, and the trailing newlines are measured from their end.
C23_HeaderExtent ==
  (op = "lint" /\ ~NoCommentBeforeProgram) =>
    /\ comments = [k \in 1..Cardinality(HeaderExtent) |->
                     file.comments[FirstHeaderComment + k - 1].value]
    /\ \A k \in 1..Len(reports) :
         /\ reports[k].messageId = "headerContentMismatch"
              => reports[k].range = <<RangeStart(file, FirstHeaderComment),
                                      RangeEnd(file, LastOf(HeaderExtent))>>
         /\ reports[k].messageId = "trailingNewlinesMismatch"
              => reports[k].range[1] = RangeEnd(file, LastOf(HeaderExtent))

\* two line comments with a blank line between them were linted: the header
\* is the first one only, and the fix replaces the range of the first one only
C23_Witness ==
  /\ op = "lint"
  /\ input = "split"
  /\ Len(file.comments) = 2
  /\ Len(comments) = 1
  /\ Len(reports) >= 1
  /\ reports[1].messageId = "headerContentMismatch"
  /\ reports[1].fix.set
  /\ reports[1].range = <<0, RangeEnd(file, 1)>>

\* the placeholder occurrences of the registered patterns in the prefix, the
\* prefixed template lines and the suffix of the matcher
ExaminedOccurrences(m, n) ==
  LET names == IF m.patterns.set THEN DOMAIN m.patterns.map ELSE {}
      body == Concat([k \in 1..Len(m.expectedLines) |-> m.linePrefix \o m.expectedLines[k] \o <<LF>>])
  IN Occurrences(PlaceholderNames(<<m.blockPrefix \o <<LF>> \o body \o m.blockSuffix>>, names), n)

\* C24: stateless matching. A second call of match on the same matcher with
\* the same comments returns what the first call returned, and the pattern
\* values of a call hold at most one entry per placeholder occurrence of the
\* configuration, none of them left over from an earlier call.
C24_StatelessMatching ==
  (op = "cursorMatchAgain" /\ ~result.threw /\ ~previous.threw) =>
    /\ result = previous
    /\ \A n \in DOMAIN result.patternValues :
         Len(result.patternValues[n]) <= ExaminedOccurrences(matcher, n)

\* at least one configured pattern has no defaultValue
LacksDefaultValue(o) ==
  o.patterns.set /\ \E n \in DOMAIN o.patterns.map : ~o.patterns.map[n].defaultValue.set

\* C25: fix gating. When a configured pattern has no defaultValue, missingHeader
\* and headerContentMismatch carry no fix and trailingNewlinesMismatch carries
\* its fix; without patterns, or with a defaultValue for every pattern, every
\* report carries a fix.
C25_FixGating ==
  op = "lint" =>
    \A k \in 1..Len(reports) :
      reports[k].fix.set
        <=> (reports[k].messageId = "trailingNewlinesMismatch"
             \/ ~LacksDefaultValue(headerFormatConfigOptions))

\* with one pattern of two lacking a defaultValue, a wrong header followed by
\* the wrong number of line breaks was reported without and with a fix
C25_Witness ==
  /\ op = "lint"
  /\ Cardinality(DOMAIN headerFormatConfigOptions.patterns.map) = 2
  /\ LacksDefaultValue(headerFormatConfigOptions)
  /\ Len(reports) = 2
  /\ reports[1].messageId = "headerContentMismatch" /\ ~reports[1].fix.set
  /\ reports[2].messageId = "trailingNewlinesMismatch" /\ reports[2].fix.set

\* the number of characters before the token at a 0-based index
RECURSIVE TextBefore(_, _)
TextBefore(tokens, tokenIndex) ==
  IF tokenIndex = 0 THEN 0
  ELSE TextBefore(tokens, tokenIndex - 1) + Len(tokens[tokenIndex])

\* the cursor at a number of characters from the start of the token texts: inside
\* a token, or at offset 0 of the token after an exhausted one
CursorAt(tokens, position) ==
  IF position = TextBefore(tokens, Len(tokens)) THEN <<Len(tokens), 0>>
  ELSE LET k == CHOOSE j \in 0..(Len(tokens) - 1) :
                  /\ TextBefore(tokens, j) <= position
                  /\ position < TextBefore(tokens, j + 1)
       IN <<k, position - TextBefore(tokens, k)>>

\* C26: cursor after a prefix match. When tokensStartWith(tokens, s, i, c)
\* reports a match, the cursor it returns is length(s) characters after (i, c)
\* in the token texts, at offset 0 of the next token when a token is exhausted.
C26_CursorAfterPrefixMatch ==
  (op = "tokensStartWith" /\ ~result.threw /\ result.matches) =>
    /\ TextBefore(comments, config.tokenIndex) + config.tokenCharacterIndex + Len(config.string)
         <= TextBefore(comments, Len(comments))
    /\ <<result.tokenIndex, result.tokenCharacterIndex>>
         = CursorAt(comments,
                    TextBefore(comments, config.tokenIndex) + config.tokenCharacterIndex
                      + Len(config.string))

\* C30: suffix cursor in bounds. tokensEndWith returns without throwing; when
\* it reports a match for a non-empty suffix, the cursor it returns is inside
\* the token list and inside its token, at the place where the suffix begins.
C30_SuffixCursorInBounds ==
  op \in {"tokensEndWith", "tokensEndWithEarlier"} =>
    /\ ~result.threw
    /\ (result.matches /\ Len(config.string) > 0) =>
         /\ 0 <= result.tokenIndex /\ result.tokenIndex < Len(comments)
         /\ 0 <= result.tokenCharacterIndex
         /\ result.tokenCharacterIndex <= Len(TokenAt(comments, result.tokenIndex))
         /\ TextBefore(comments, result.tokenIndex) + result.tokenCharacterIndex
              = TextBefore(comments, Len(comments)) - Len(config.string)

\* the last template line of the matched configuration holds text
LastLineHasText ==
  /\ Len(config.expectedLines) > 0
  /\ Len(trimEnd(config.expectedLines[Len(config.expectedLines)])) > 0

\* C27: whole-line body match. A header in which the last expected line is
\* continued on the same line by further text (' d' between the body and the
\* block suffix) is a mismatch: match returns null.
C27_WholeLineBodyMatch ==
  (op = "match" /\ input = "continuedLine" /\ LastLineHasText) => result.isNull

\* the keys of the variables written in the opposite order
ReversedVariables(variables) ==
  Variables([k \in 1..Len(variables.entries) |->
               variables.entries[Len(variables.entries) + 1 - k]])

\* the value of one key holds '{otherKey}' for another key of the variables
HasKeyInValue(variables) ==
  \E j, k \in 1..Len(variables.entries) :
    /\ j # k
    /\ \E i \in 1..Len(variables.entries[j].value) :
         StartsWithAt(variables.entries[j].value, i,
                      <<"{">> \o variables.entries[k].key \o <<"}">>)

\* C29: order-independent variable substitution. The template lines that
\* header-format enforces are the same when the keys of the variables are
\* written in the opposite order, and a value that holds '{otherKey}' is in the
\* template as written.
C29_OrderIndependentSubstitution ==
  (op = "new" /\ headerFormatConfigOptions.variables.set) =>
    /\ formatter.lines
         = create([headerFormatConfigOptions EXCEPT
                     !.variables = ReversedVariables(headerFormatConfigOptions.variables)],
                  file).expectedHeaderLines
    /\ HasKeyInValue(headerFormatConfigOptions.variables) =>
         formatter.lines
           = Split(normalizeEol(SubstituteVariables(headerFormatConfigOptions.content,
                                                    headerFormatConfigOptions.variables.entries, 1)),
                   <<LF>>)

\* C28: fix convergence. After the headerContentMismatch fix was applied, a
\* second run of header-format on the fixed file reports no
\* headerContentMismatch.
C28_FixConvergence ==
  op = "relint" => \A k \in 1..Len(reports) : reports[k].messageId # "headerContentMismatch"

====
